---- MODULE Spec2Model ----
(***************************************************************************)
(* A model of JIT_NEST's virtual-collection / sparse-attribute engine:     *)
(* JitModel, JitAtribute, JitNode and JitNodeCollection of                 *)
(* models/jit_model.py, and the creation paths of                          *)
(* helpers/create_helper.py.                                               *)
(*                                                                         *)
(* Python values are represented as follows.                               *)
(*   - a list element of an indexing key is [b |-> is it a bool, v |-> its *)
(*     integer value] (a Python bool is an int: True is 1, False is 0);    *)
(*   - the outcome of a call is a record [res, nodes]: res is "list" (a    *)
(*     list of JitNode was returned), "node" (one JitNode was returned),   *)
(*     "None" (the call fell off its end) or the name of the exception     *)
(*     raised.                                                             *)
(***************************************************************************)
EXTENDS Integers, Sequences, FiniteSets, TLC

VARIABLES idxNode, idxKey, idxStrict, idxRes
VARIABLES posNodes, posAt, posRes, slcKey, slcRes

\* ------------------------------------------------------------------ bounds
\* Longest range (JitNode) that is indexed.
MaxLen == 5
\* Largest first id of an indexed range.
MaxFirst == 2
\* Longest indexing key made of arbitrary elements (bools and ints mixed).
MaxKeyLen == 2
\* Most ranges in a collection whose positions are resolved.
MaxNodes == 3
\* Longest range in such a collection.
MaxBlock == 2
\* Most ranges, and the longest range, in a collection that is sliced.
MaxSliceNodes == 2
MaxSliceBlock == 4

\* ------------------------------------------------------------ small tools
Range(s) == {s[i] : i \in 1..Len(s)}

RECURSIVE SeqsUpTo(_, _)
SeqsUpTo(S, n) ==
    IF n = 0 THEN {<<>>}
    ELSE LET shorter == SeqsUpTo(S, n - 1)
         IN  shorter \cup {Append(s, x) : s \in {t \in shorter : Len(t) = n - 1}, x \in S}

Min(S) == CHOOSE x \in S : \A y \in S : x <= y

\* The elements of S in ascending order.
RECURSIVE SortedSeq(_)
SortedSeq(S) ==
    IF S = {} THEN <<>> ELSE <<Min(S)>> \o SortedSeq(S \ {Min(S)})

\* Python's range(a, b) as a list.
PyRange(a, b) == [i \in 1..(IF b > a THEN b - a ELSE 0) |-> a + i - 1]

RECURSIVE Flatten(_)
Flatten(ss) == IF ss = <<>> THEN <<>> ELSE Head(ss) \o Flatten(Tail(ss))

\* ------------------------------------------------------------------ JitNode
\* JitNode.__init__: a contiguous block [first, last) of one model's ids.
JitNode(name, first, last) ==
    [name |-> name, first |-> first, last |-> last, isDefault |-> TRUE]

\* JitNode.__len__
NodeLen(node) == node.last - node.first

\* JitNode.tolist
ToList(node) == PyRange(node.first, node.last)

\* An outcome that returns or raises without nodes.
Outcome(res) == [res |-> res, nodes |-> <<>>]

\* JitNode.__groupByDistance, the loop of lines 480-489: the run being built
\* is (first, last); i is the next index into items (1-based here).
RECURSIVE GroupLoop(_, _, _, _, _)
GroupLoop(items, i, first, last, res) ==
    IF i > Len(items) THEN Append(res, <<first, last + 1>>)
    ELSE IF items[i] - last = 1
         THEN GroupLoop(items, i + 1, first, items[i], res)
         ELSE GroupLoop(items, i + 1, items[i], items[i],
                        Append(res, <<first, last + 1>>))

\* A grouping that also fuses positions that are further apart than one.
GroupByDistanceFusing(items) == <<<<items[1], items[Len(items)] + 1>>>>

\* A grouping that closes a run at every position.
GroupByDistanceSplitting(items) == [i \in 1..Len(items) |-> <<items[i], items[i] + 1>>]

\* JitNode.__groupByDistance: items is a non-empty list of integers (an empty
\* list makes items[0] raise; see GetNodesAt).
GroupByDistance(items) ==
    IF Len(items) = 1 THEN <<<<items[1], items[1] + 1>>>>
    ELSE GroupLoop(items, 2, items[1], items[1], <<>>)

\* JitNode.__getNodesAt: None unless every position is below the length;
\* negative positions pass the test.
GetNodesAt(node, items) ==
    IF \A i \in 1..Len(items) : items[i] < NodeLen(node)
    THEN IF Len(items) = 0 THEN Outcome("IndexError")
         ELSE LET groups == GroupByDistance(items)
              IN  [res |-> "list",
                   nodes |-> [g \in 1..Len(groups) |->
                                LET first == node.first + groups[g][1]
                                    last == first + groups[g][2] - groups[g][1]
                                IN  JitNode(node.name, first, last)]]
    ELSE Outcome("None")

\* The elements of a list key: the int i, the bool x.
IntElem(i) == [b |-> FALSE, v |-> i]
BoolElem(x) == [b |-> TRUE, v |-> IF x THEN 1 ELSE 0]

\* The integer values of a key's elements, as Python's arithmetic sees them.
KeyValues(key) == [i \in 1..Len(key) |-> key[i].v]

\* numpy's conversion of a Python int to uint64 on a build that wraps: the
\* number c * 2^64 + v is written <<c, v>>, so -1 becomes 2^64 - 1.
NpUint64(v) == IF v >= 0 THEN <<0, v>> ELSE <<1, v>>

\* A uniqueness test that finds nothing.
HasRepeatedIndexNever(key) == FALSE

\* len(np.unique(npKey)) != len(npKey), line 433.
HasRepeatedIndex(key) ==
    Cardinality({NpUint64(key[i].v) : i \in 1..Len(key)}) # Len(key)

\* JitNode.__getitem__ for a list or tuple key, lines 421-438. strict says
\* whether the build's numpy refuses a negative Python int for uint64
\* (OverflowError) instead of wrapping it.  The positions computed from a
\* boolean mask (npKey, lines 428-429) are not used: line 438 passes key.
GetItemList(node, key, strict) ==
    IF Len(key) = 0 THEN [res |-> "node", nodes |-> <<JitNode("None", 0, 0)>>]
    ELSE IF \A i \in 1..Len(key) : key[i].b
    THEN IF Len(key) # NodeLen(node) THEN Outcome("IndexError")
         ELSE GetNodesAt(node, KeyValues(key))
    ELSE IF \A i \in 1..Len(key) : ~key[i].b
    THEN IF strict /\ \E i \in 1..Len(key) : key[i].v < 0 THEN Outcome("OverflowError")
         ELSE IF HasRepeatedIndex(key) THEN Outcome("ValueError")
         ELSE GetNodesAt(node, KeyValues(key))
    ELSE Outcome("TypeError")

\* A key of node[key]: an int, a slice (each part a number or None), a list.
None == [isNone |-> TRUE, v |-> 0]
Some(n) == [isNone |-> FALSE, v |-> n]
IntKey(k) == [kind |-> "int", v |-> k]
SliceKey(start, stop, step) == [kind |-> "slice", start |-> start, stop |-> stop, step |-> step]
ListKey(elems) == [kind |-> "list", elems |-> elems]

Abs(n) == IF n < 0 THEN -n ELSE n

\* Python's list(range(start, stop, step)) for step >= 1.
PyRangeStep(start, stop, step) ==
    [i \in 1..(IF stop > start THEN (stop - start + step - 1) \div step ELSE 0) |->
        start + (i - 1) * step]

\* A test of an int key that also refuses the negative ones.
IntKeyOutsideBothEnds(key, len) == key >= len \/ key < 0

\* The test of an int key, line 399.
IntKeyOutside(key, len) == key >= len

\* JitNode.__getitem__ for a slice, lines 402-419.
GetItemSlice(node, key) ==
    LET start == IF key.start.isNone THEN 0 ELSE key.start.v
        stop == IF key.stop.isNone THEN NodeLen(node) ELSE key.stop.v
        step == IF key.step.isNone THEN 1 ELSE key.step.v
    IN  IF ~key.start.isNone /\ Abs(start) > NodeLen(node) THEN Outcome("IndexError")
        ELSE IF ~key.stop.isNone /\ Abs(stop) > NodeLen(node) THEN Outcome("IndexError")
        ELSE IF step < 1 THEN Outcome("IndexError")
        ELSE GetNodesAt(node, PyRangeStep(start, stop, step))

\* JitNode.__getitem__
GetItem(node, key, strict) ==
    IF key.kind = "int"
    THEN IF IntKeyOutside(key.v, NodeLen(node)) THEN Outcome("IndexError")
         ELSE GetNodesAt(node, <<key.v>>)
    ELSE IF key.kind = "slice" THEN GetItemSlice(node, key)
    ELSE GetItemList(node, key.elems, strict)

\* ---------------------------------------------------------- attribute values
\* The attributes every model declares, and the values callers set.  A stored
\* value is a sequence of integers: <<x>> is the number x, a longer sequence
\* is a Python list kept as one value.  Defaults are numbers.
Keys == {"tau", "V"}
Val == {1, 2}
InitialDefaults == [k \in Keys |-> <<0>>]
\* The names a caller may pass as attribute names: the keys of the model and
\* a name the model does not declare.
AttrNames == Keys \cup {"w"}

\* k is not a key of JitModel.attributes.
NoAttr == [ids |-> 0, values |-> <<>>]

\* The ids argument of a call: a Python range (copied by JitAtribute) or a
\* Python list (kept by reference).
IdsRange(first, last) == [isRange |-> TRUE, list |-> PyRange(first, last)]
IdsList(list) == [isRange |-> FALSE, list |-> list]

\* One entry of the dict passed to set: a number v (isList FALSE, x = <<v>>)
\* or a list x of numbers (isList TRUE).
Scalar(v) == [isList |-> FALSE, x |-> <<v>>]
ListOf(x) == [isList |-> TRUE, x |-> x]

\* list.index
IndexOf(list, id) == Min({i \in 1..Len(list) : list[i] = id})

\* --------------------------------------------------------------- JitAtribute
\* Lists of ids are Python objects that several attributes may hold: heap[c]
\* is the content of list object c, and an attribute's ids is such a c.
\* st is the state a call works on: [err, heap, attrs, cell], where attrs is
\* the model's attributes dict and cell the heap cell of the caller's list
\* of ids (0 while it has none).

\* JitAtribute.__contains__ for an int
AttrContains(heap, a, id) == a # NoAttr /\ id \in Range(heap[a.ids])

\* JitAtribute.getValueOfId: [err, value]
GetValueOfId(heap, a, id) ==
    IF ~AttrContains(heap, a, id) THEN [err |-> "ValueError", value |-> <<>>]
    ELSE LET index == IndexOf(heap[a.ids], id)
         IN  IF index > Len(a.values) THEN [err |-> "IndexError", value |-> <<>>]
             ELSE [err |-> "ok", value |-> a.values[index]]

\* JitAtribute.__init__ as called from JitModel.set, which then stores the
\* new attribute under k.  A range is copied (line 862); a list is kept as
\* the caller's object (line 864), so every attribute created from the same
\* list shares it.  One id with a longer list of values keeps the list as
\* its value (line 869).
JitAtributeInit(st, k, ids, values) ==
    LET n == Len(ids.list)
        fresh == ids.isRange \/ st.cell = 0
        cell == IF fresh THEN Len(st.heap) + 1 ELSE st.cell
    IN  IF n # Len(values) /\ n # 1 THEN [st EXCEPT !.err = "ValueError"]
        ELSE [st EXCEPT !.heap = IF fresh THEN Append(st.heap, ids.list) ELSE st.heap,
                        !.cell = IF ids.isRange THEN st.cell ELSE cell,
                        !.attrs[k] = [ids |-> cell,
                                      values |-> IF n < Len(values) /\ n = 1
                                                 THEN <<values>>
                                                 ELSE [i \in 1..Len(values) |-> <<values[i]>>]]]

\* JitAtribute.update, the loop of lines 931-937, from position pos on.
RECURSIVE UpdateLoop(_, _, _, _, _)
UpdateLoop(st, k, ids, values, pos) ==
    IF pos > Len(ids) THEN st
    ELSE LET a == st.attrs[k]
             localId == ids[pos]
             modelIds == st.heap[a.ids]
         IN  IF localId \in Range(modelIds)
             THEN LET index == IndexOf(modelIds, localId)
                  IN  IF index > Len(a.values) THEN [st EXCEPT !.err = "IndexError"]
                      ELSE UpdateLoop([st EXCEPT !.attrs[k].values[index] = <<values[pos]>>],
                                      k, ids, values, pos + 1)
             ELSE UpdateLoop([st EXCEPT !.heap[a.ids] = Append(modelIds, localId),
                                        !.attrs[k].values = Append(a.values, <<values[pos]>>)],
                             k, ids, values, pos + 1)

\* JitAtribute.update
JitAtributeUpdate(st, k, ids, values) ==
    IF Len(ids.list) # Len(values) THEN [st EXCEPT !.err = "ValueError"]
    ELSE UpdateLoop(st, k, ids.list, values, 1)

\* ------------------------------------------------------------------ JitModel
\* JitModel.set, the loop over collection.items() from entry i on.  An entry
\* is <<k, v>>.  The values are numbers, so the TypeError of line 267 (a list
\* of lists of another length) does not arise.
\* A set that makes a new store for k whether or not there is one.
StoreValuesReplacing(st, k, ids, values) == JitAtributeInit(st, k, ids, values)

\* JitModel.set, lines 268-272 and 275-279: update the store of k, or make it.
StoreValues(st, k, ids, values) ==
    IF st.attrs[k] # NoAttr
    THEN JitAtributeUpdate(st, k, ids, values)
    ELSE JitAtributeInit(st, k, ids, values)

RECURSIVE SetLoop(_, _, _, _)
SetLoop(st, ids, collection, i) ==
    IF i > Len(collection) \/ st.err # "ok" THEN st
    ELSE LET k == collection[i][1]
             v == collection[i][2]
             values == IF v.isList THEN v.x ELSE [j \in 1..Len(ids.list) |-> v.x[1]]
             next == StoreValues(st, k, ids, values)
         IN  SetLoop(next, ids, collection, i + 1)

\* JitModel.set on the attributes attrs of one model: [err, heap, attrs, cell]
JitModelSet(heap, attrs, ids, collection) ==
    SetLoop([err |-> "ok", heap |-> heap, attrs |-> attrs, cell |-> 0], ids, collection, 1)

\* JitModel.get, lines 233-245: the values of k for ids from position i on.
RECURSIVE ValuesOfK(_, _, _, _, _, _)
ValuesOfK(model, heap, k, ids, onlyChanged, i) ==
    IF i > Len(ids) THEN [err |-> "ok", vals |-> <<>>]
    ELSE LET a == model.attributes[k]
             rest == ValuesOfK(model, heap, k, ids, onlyChanged, i + 1)
             here == IF AttrContains(heap, a, ids[i])
                     THEN LET g == GetValueOfId(heap, a, ids[i])
                          IN  [err |-> g.err, vals |-> <<g.value>>]
                     ELSE [err |-> "ok",
                           vals |-> IF onlyChanged THEN <<>> ELSE <<model.default[k]>>]
         IN  IF here.err # "ok" THEN [err |-> here.err, vals |-> <<>>]
             ELSE IF rest.err # "ok" THEN rest
             ELSE [err |-> "ok", vals |-> here.vals \o rest.vals]

\* JitModel.get: [err, keys, res].  keys lists the keys of the returned dict
\* in insertion order; res[k] is [one, vals]: one says that the dict holds
\* the single value vals[1] instead of the list vals (line 249).
JitModelGet(model, heap, ids, items, onlyChanged) ==
    LET valid == SelectSeq(items, LAMBDA x : x \in DOMAIN model.default)
        per == [i \in 1..Len(valid) |-> ValuesOfK(model, heap, valid[i], ids, onlyChanged, 1)]
        kept == SelectSeq([i \in 1..Len(valid) |-> i], LAMBDA i : Len(per[i].vals) > 0)
    IN  IF \E i \in 1..Len(valid) : per[i].err # "ok"
        THEN [err |-> "IndexError", keys |-> <<>>, res |-> <<>>]
        ELSE [err |-> "ok",
              keys |-> [j \in 1..Len(kept) |-> valid[kept[j]]],
              res |-> [j \in 1..Len(kept) |->
                         [one |-> Len(per[kept[j]].vals) = 1, vals |-> per[kept[j]].vals]]]

\* ------------------------------------------------------------- the registries
\* The model names: a model given as NESTML source, a model of an external
\* library, and a model built into the engine.
ModelNames == {"nml", "lib", "bi"}
BuiltIn == {"bi"}

\* ModelQuery(modelName).getModelHandle().is_lib
IsLib(modelName) == modelName = "lib"

\* Most ids handed out to one model (the guard that keeps nextFree bounded).
MaxIds == 3
\* Largest n of a creation request.
MaxN == 2
\* Most creation requests, and most set / setDefaults calls, in one run.
MaxCreates == 2
MaxCalls == 2
\* Most createNodeCollection calls in one run.
MaxConversions == 2

VARIABLES
    JitModels,       \* ModelManager.JitModels: name -> JitModel
    heap,            \* the list objects held by JitAtribute.modelIds
    nextFree,        \* ModelManager.ModelIndexer: name -> next unused id
    proxies,         \* ModelManager.NodeCollectionProxy, and derived collections
    nest,            \* the engine: installed models, next id, Create calls
    threads,         \* ModelManager.Threads
    indexer,         \* ModelManager.ModelIndexer: name -> bound (x, y) pairs
    externalModels,  \* ModelManager.ExternalModels
    lastSet,         \* history: the value most recently set for (model, key, id)
    contractOk,      \* history: every set call so far kept set's contract
    used,            \* history: creation requests and attribute calls made
    ret              \* the outcome of the last call

sysvars == <<JitModels, heap, nextFree, proxies, nest, threads, indexer,
             externalModels, lastSet, contractOk, used, ret>>

Unset == <<>>

\* The state the handlers work on, as one record; err is the exception the
\* call in progress has raised ("ok": none).
World ==
    [err |-> "ok", JitModels |-> JitModels, heap |-> heap, nextFree |-> nextFree,
     proxies |-> proxies, nest |-> nest, threads |-> threads, indexer |-> indexer,
     externalModels |-> externalModels, lastSet |-> lastSet, contractOk |-> contractOk]

Commit(w) ==
    /\ JitModels' = w.JitModels
    /\ heap' = w.heap
    /\ nextFree' = w.nextFree
    /\ proxies' = w.proxies
    /\ nest' = w.nest
    /\ threads' = w.threads
    /\ indexer' = w.indexer
    /\ externalModels' = w.externalModels
    /\ lastSet' = w.lastSet
    /\ contractOk' = w.contractOk

\* The outcome of a call: the operation, what it returned or raised, the
\* handler that ran (path), the collection concerned (c), the number of
\* instances asked for (count), and the arguments of the call (arg).
Ret(op, res, path, c, count, arg) ==
    [op |-> op, res |-> res, path |-> path, c |-> c, count |-> count, arg |-> arg]


\* JitModel.__init__ with the defaults extractDefaults reads from the parsed
\* model (or, for a library model, addDefaultsValues stores).
NewJitModel(name, source) ==
    [name |-> name, default |-> InitialDefaults, attributes |-> [k \in AttrNames |-> NoAttr],
     createParams |-> [isSet |-> FALSE, model |-> "UnknownModel", n |-> 0],
     source |-> source, hasChanged |-> FALSE]

\* ModelManager.updateIndex(modelName, n): <<first, last>>, and the advance.
UpdateIndex(w, modelName, n) ==
    [first |-> w.nextFree[modelName], last |-> w.nextFree[modelName] + n]

\* ModelManager.getIds(name): the ids handed out to the model so far.
GetIds(w, name) == PyRange(0, w.nextFree[name])

\* numpy.prod(positions.shape)
RECURSIVE Prod(_)
Prod(shape) == IF shape = <<>> THEN 1 ELSE Head(shape) * Prod(Tail(shape))

NoPositions == <<>>

\* CreateHelper.getParams: the number of instances asked for.
GetParamsSize(n, positions) == IF positions = NoPositions THEN n ELSE Prod(positions)

\* The engine's Create(model, n, params, positions): it makes as many
\* instances as asked for, with the next engine ids, unless the model is not
\* installed.  Every invocation is logged; ready says whether the model was
\* installed when the call was made.
NestCreate(w, model, count, by) ==
    LET ready == model \in w.nest.models
        entry == [model |-> model, n |-> count, by |-> by, ready |-> ready,
                  first |-> w.nest.nextId]
    IN  IF ready
        THEN [w EXCEPT !.nest.log = Append(@, entry), !.nest.nextId = @ + count]
        ELSE [w EXCEPT !.nest.log = Append(@, entry), !.err = "NESTError"]

\* The history of set calls: a call keeps set's contract when its ids are
\* distinct and every list of values has one value per id.
KeepsContract(ids, collection) ==
    /\ \A i, j \in 1..Len(ids.list) : ids.list[i] = ids.list[j] => i = j
    /\ \A e \in 1..Len(collection) :
         collection[e][2].isList => Len(collection[e][2].x) = Len(ids.list)

RecordSet(ls, ids, collection) ==
    [k \in Keys |-> [id \in 0..(MaxIds - 1) |->
        IF \E e \in 1..Len(collection), p \in 1..Len(ids.list) :
               collection[e][1] = k /\ ids.list[p] = id
        THEN LET e == CHOOSE e \in 1..Len(collection) : collection[e][1] = k
                 p == CHOOSE p \in 1..Len(ids.list) : ids.list[p] = id
                 v == collection[e][2]
             IN  IF v.isList THEN <<v.x[p]>> ELSE v.x
        ELSE ls[k][id]]]

\* JitModel.set of model m in world w.
ModelSet(w, m, ids, collection) ==
    LET r == JitModelSet(w.heap, w.JitModels[m].attributes, ids, collection)
        kept == KeepsContract(ids, collection)
    IN  [w EXCEPT !.err = r.err, !.heap = r.heap, !.JitModels[m].attributes = r.attrs,
                  !.contractOk = @ /\ kept,
                  !.lastSet[m] = IF kept THEN RecordSet(@, ids, collection) ELSE @]

\* JitModel.setDefaults, the loop over the keys from entry i on.  list(set)
\* of small ints lists them in ascending order.
RECURSIVE SetDefaultsLoop(_, _, _, _)
SetDefaultsLoop(w, m, dicOfParams, i) ==
    IF i > Len(dicOfParams) \/ w.err # "ok" THEN w
    ELSE IF dicOfParams[i][1] \notin DOMAIN w.JitModels[m].default
    THEN [w EXCEPT !.err = "KeyError"]
    ELSE LET key == dicOfParams[i][1]
             a == w.JitModels[m].attributes[key]
             ignoredModels == IF a # NoAttr THEN Range(w.heap[a.ids]) ELSE {}
             modelsToUpdate == SortedSeq(Range(GetIds(w, m)) \ ignoredModels)
             old == w.JitModels[m].default[key]
         IN  SetDefaultsLoop(ModelSet(w, m, IdsList(modelsToUpdate), <<<<key, Scalar(old[1])>>>>),
                             m, dicOfParams, i + 1)

\* A setDefaults that replaces the defaults without pinning anything.
JitModelSetDefaultsUnpinned(w, m, dicOfParams) ==
    IF \E i \in 1..Len(dicOfParams) : dicOfParams[i][1] \notin DOMAIN w.JitModels[m].default
    THEN [w EXCEPT !.err = "KeyError"]
    ELSE [w EXCEPT !.JitModels[m].default =
                  [k \in Keys |->
                     IF \E i \in 1..Len(dicOfParams) : dicOfParams[i][1] = k
                     THEN (CHOOSE e \in Range(dicOfParams) : e[1] = k)[2]
                     ELSE @[k]],
              !.JitModels[m].hasChanged = TRUE]

\* JitModel.setDefaults: dicOfParams is a list of <<key, <<value>>>>.
JitModelSetDefaults(w, m, dicOfParams) ==
    LET w1 == SetDefaultsLoop(w, m, dicOfParams, 1)
    IN  IF w1.err # "ok" THEN w1
        ELSE [w1 EXCEPT !.JitModels[m].default =
                            [k \in Keys |->
                               IF \E i \in 1..Len(dicOfParams) : dicOfParams[i][1] = k
                               THEN (CHOOSE e \in Range(dicOfParams) : e[1] = k)[2]
                               ELSE @[k]],
                        !.JitModels[m].hasChanged = TRUE]

\* ------------------------------------------------------------- collections
\* JitNodeCollection.__init__(nodes, isNotInitial).  origin is history: how
\* the collection came to be ("create", "slice"); count is the number of
\* instances the creation request asked for.
JitNodeCollection(nodes, isNotInitial, origin, count) ==
    [kind |-> "jit", nodes |-> nodes, isNotInitial |-> isNotInitial,
     origin |-> origin, count |-> count]

\* A NodeCollectionProxy that holds a real NodeCollection of the engine:
\* nodes is its virtualIds.
NestCollection(node, count) ==
    [kind |-> "nest", nodes |-> <<node>>, isNotInitial |-> TRUE,
     origin |-> "create", count |-> count]

\* A node whose last is the count instead of first + count.
InitialJitNodeCountAsLast(modelName, first, last) == JitNode(modelName, first, last - first)

\* CreateHelper.handleJitModel, line 178
InitialJitNode(modelName, first, last) == JitNode(modelName, first, last)

\* A collection that Create hands out as already converted.
InitialCollectionConverted(node, size) == JitNodeCollection(<<node>>, TRUE, "create", size)

\* CreateHelper.handleJitModel, line 179
InitialCollection(node, size) == JitNodeCollection(<<node>>, FALSE, "create", size)

\* CreateHelper.handleJitModel.  params is the dict of new values (<<>>:
\* None or empty).  NodeCollectionProxy.set(**params) sets them on the new
\* node (JitNode.set with ids None).
HandleJitModel(w, modelName, n, params, positions) ==
    LET size == GetParamsSize(n, positions)
        w1 == [w EXCEPT !.JitModels[modelName].createParams =
                            [isSet |-> TRUE, model |-> modelName, n |-> size]]
        ix == UpdateIndex(w1, modelName, size)
        w2 == [w1 EXCEPT !.nextFree[modelName] = ix.last]
        node == InitialJitNode(modelName, ix.first, ix.last)
        w3 == IF params # <<>>
              THEN ModelSet(w2, modelName, IdsRange(node.first, node.last), params)
              ELSE w2
        set == [node EXCEPT !.isDefault = (params = <<>>)]
    IN  IF w3.err # "ok" THEN w3
        ELSE [w3 EXCEPT !.proxies = Append(@, InitialCollection(set, size))]

\* CreateHelper.handleBuiltIn
HandleBuiltIn(w, modelName, n, params, positions) ==
    LET count == GetParamsSize(n, positions)
        w1 == NestCreate(w, modelName, count, "handleBuiltIn")
        ix == UpdateIndex(w1, modelName, count)
    IN  IF w1.err # "ok" THEN w1
        ELSE [w1 EXCEPT !.nextFree[modelName] = ix.last,
                        !.proxies = Append(@, NestCollection(JitNode(modelName, ix.first, ix.last),
                                                             count))]

\* CreateHelper.handleExternalLib
HandleExternalLib(w, modelName, n, params, positions) ==
    LET size == GetParamsSize(n, positions)
        jitModel == [NewJitModel(modelName, "external") EXCEPT
                        !.createParams = [isSet |-> TRUE, model |-> modelName, n |-> size]]
        w1 == [w EXCEPT !.JitModels = (modelName :> jitModel) @@ @,
                        !.nest.models = @ \cup {modelName}]
        w2 == NestCreate(w1, modelName, size, "handleExternalLib")
        ix == UpdateIndex(w2, modelName, size)
    IN  IF w2.err # "ok" THEN w2
        ELSE [w2 EXCEPT !.nextFree[modelName] = ix.last,
                        !.proxies = Append(@, NestCollection(JitNode(modelName, ix.first, ix.last),
                                                             size))]

\* ModelManager.Threads.append(createThread): the thread object is in the
\* list and has not been started.
ThreadsAppend(w, modelName) ==
    [w EXCEPT !.threads = Append(@, [model |-> modelName, state |-> "new",
                                     atStart |-> [listed |-> FALSE, registered |-> FALSE,
                                                  ranged |-> FALSE]])]

\* createThread.start() for the thread of modelName.  atStart is history:
\* what held when the thread began to run (it was in the list, its model
\* was registered, a range of the model had been handed out).  A thread
\* started without being in the list runs all the same.
ThreadStart(w, modelName) ==
    LET at == {i \in 1..Len(w.threads) :
                  w.threads[i].model = modelName /\ w.threads[i].state = "new"}
        seen == [listed |-> at # {},
                 registered |-> modelName \in DOMAIN w.JitModels,
                 ranged |-> \E c \in 1..Len(w.proxies) :
                               w.proxies[c].nodes[1].name = modelName]
    IN  IF at = {}
        THEN [w EXCEPT !.threads = Append(@, [model |-> modelName, state |-> "running",
                                              atStart |-> seen])]
        ELSE [w EXCEPT !.threads[CHOOSE i \in at : TRUE] =
                           [model |-> modelName, state |-> "running", atStart |-> seen]]

\* A start of the thread that skips the list of threads.
StartThreadUnlisted(w, modelName) == ThreadStart(w, modelName)

\* Lines 153-156 of CreateHelper.handleNestml: append, then start.
StartThread(w, modelName) == ThreadStart(ThreadsAppend(w, modelName), modelName)

\* CreateHelper.handleNestml: the keys of params must be declared by the
\* model; registerModels; handleJitModel; the build thread is started.
HandleNestml(w, modelName, n, params, positions) ==
    LET w1 == [w EXCEPT !.externalModels = Append(@, modelName)]
        givenKeys == {params[i][1] : i \in 1..Len(params)}
        w2 == [w1 EXCEPT !.JitModels = (modelName :> NewJitModel(modelName, "nestml")) @@ @]
        w3 == HandleJitModel(w2, modelName, n, params, positions)
    IN  IF givenKeys \ Keys # {} THEN [w1 EXCEPT !.err = "KeyError"]
        ELSE IF w3.err # "ok" THEN w3
        ELSE StartThread(w3, modelName)

\* A dispatch that does not look at the registry of JIT models.
CreatePathIgnoringRegistry(w, modelName) ==
    IF modelName \in w.nest.models THEN "handleBuiltIn"
    ELSE IF IsLib(modelName) THEN "handleExternalLib"
    ELSE "handleNestml"

\* The handler CreateHelper.Create dispatches to.
CreatePath(w, modelName) ==
    IF modelName \in DOMAIN w.JitModels THEN "handleJitModel"
    ELSE IF modelName \in w.nest.models THEN "handleBuiltIn"
    ELSE IF IsLib(modelName) THEN "handleExternalLib"
    ELSE "handleNestml"

\* CreateHelper.Create
CreateHelperCreate(w, modelName, n, params, positions) ==
    LET path == CreatePath(w, modelName)
        w1 == [w EXCEPT !.externalModels = Append(@, modelName)]
    IN  IF path = "handleJitModel" THEN HandleJitModel(w, modelName, n, params, positions)
        ELSE IF path = "handleBuiltIn" THEN HandleBuiltIn(w, modelName, n, params, positions)
        ELSE IF path = "handleExternalLib"
        THEN HandleExternalLib(w1, modelName, n, params, positions)
        ELSE HandleNestml(w1, modelName, n, params, positions)

\* A test that takes the creation parameters of every model for cached.
HasCreateParamsAlways(model) == TRUE

\* JitModel.createNodeCollection, the test of line 194: bool(self.createParams)
HasCreateParams(model) == model.createParams.isSet

\* JitModel.createNodeCollection(params): params is the result of get.  The
\* number of instances is the length of the first value of params.
JitModelCreateNodeCollection(w, m, params) ==
    LET cp == w.JitModels[m].createParams
        firstValue == params.res[1]
    IN  IF ~HasCreateParams(w.JitModels[m]) THEN [w EXCEPT !.err = "Exception"]
        ELSE IF Len(params.keys) = 0 THEN [w EXCEPT !.err = "IndexError"]
        ELSE IF firstValue.one /\ Len(firstValue.vals[1]) = 1
        THEN [w EXCEPT !.err = "TypeError"]
        ELSE NestCreate(w, cp.model,
                        IF firstValue.one THEN Len(firstValue.vals[1]) ELSE Len(firstValue.vals),
                        "createNodeCollection")

\* JitNode.addNestIds(ids) with ids = [first engine id, last engine id]
JitNodeAddNestIds(w, node, ids) ==
    IF NodeLen(node) = ids[2] - ids[1] + 1
    THEN [w EXCEPT !.indexer[node.name] =
                       Append(@, [x |-> <<node.first, node.last>>, y |-> ids])]
    ELSE w

\* A guard that takes every collection for an unconverted one.
IsNotInitialNever(coll) == FALSE

\* JitNodeCollection.createNodeCollection, the test of line 739
IsNotInitial(coll) == coll.isNotInitial

\* JitNodeCollection.createNodeCollection of collection c.  keys is
\* self.getKeys(), a Python set of strings, in the order this run iterates it.
CollectionCreateNodeCollection(w, c, keys) ==
    LET coll == w.proxies[c]
        jitNode == coll.nodes[1]
        params == JitModelGet(w.JitModels[jitNode.name], w.heap, ToList(jitNode), keys, TRUE)
        w1 == JitModelCreateNodeCollection(w, jitNode.name, params)
        made == w1.nest.log[Len(w1.nest.log)]
        w2 == JitNodeAddNestIds(w1, jitNode, <<made.first, made.first + made.n - 1>>)
    IN  IF IsNotInitial(coll) THEN [w EXCEPT !.err = "Exception"]
        ELSE IF params.err # "ok" THEN [w EXCEPT !.err = params.err]
        ELSE IF w1.err # "ok" THEN w1
        ELSE [w2 EXCEPT !.proxies[c].isNotInitial = TRUE]

\* ModelIndexer.getNestIdsAt([first, last]) for model name: the engine ids
\* recorded for a range that covers [first, last), or NotMaterializedError.
GetNestIdsAt(w, name, first, last) ==
    LET covering == {e \in 1..Len(w.indexer[name]) :
                        /\ w.indexer[name][e].x[1] <= first
                        /\ last <= w.indexer[name][e].x[2]}
        e == Min(covering)
        base == w.indexer[name][e].y[1] + (first - w.indexer[name][e].x[1])
    IN  IF covering = {} THEN [err |-> "NotMaterializedError", ids |-> <<>>]
        ELSE [err |-> "ok", ids |-> [j \in 1..(last - first) |-> base + j - 1]]

\* JitNode.getNestIds
JitNodeGetNestIds(w, node) == GetNestIdsAt(w, node.name, node.first, node.last)

\* An extend that skips the ranges whose lookup raised.
ExtendNestIdsSkipping(acc, r) ==
    IF r.err # "ok" THEN acc ELSE [acc EXCEPT !.ids = @ \o r.ids]

\* JitNodeCollection.getNestIds, line 727: ids.extend(node.getNestIds());
\* an exception of the lookup ends the call.
ExtendNestIds(acc, r) ==
    IF acc.err # "ok" THEN acc
    ELSE IF r.err # "ok" THEN [err |-> r.err, ids |-> <<>>]
    ELSE [err |-> "ok", ids |-> acc.ids \o r.ids]

\* JitNodeCollection.getNestIds, the loop over the nodes from node i on.
RECURSIVE GetNestIdsLoop(_, _, _, _)
GetNestIdsLoop(w, nodes, i, acc) ==
    IF i > Len(nodes) THEN acc
    ELSE GetNestIdsLoop(w, nodes, i + 1, ExtendNestIds(acc, JitNodeGetNestIds(w, nodes[i])))

\* JitNodeCollection.getNestIds of collection c: [err, ids]
CollectionGetNestIds(w, c) ==
    GetNestIdsLoop(w, w.proxies[c].nodes, 1, [err |-> "ok", ids |-> <<>>])

\* copy.nodes, line 712: copy is the module, which has no such attribute.
CopyNodes == [err |-> "AttributeError", nodes |-> <<>>]

\* JitNodeCollection.__add__ of collections a and b.
CollectionAdd(w, a, b) ==
    LET mynodes == w.proxies[a].nodes
        otherNodes == CopyNodes
    IN  IF otherNodes.err # "ok" THEN [w EXCEPT !.err = otherNodes.err]
        ELSE [w EXCEPT !.proxies =
                  Append(@, JitNodeCollection(mynodes \o otherNodes.nodes, TRUE, "add", 0))]

\* CreateHelper.registerModels for one model: a new JitModel is stored
\* under its name.
RegisterModels(w, name) ==
    [w EXCEPT !.JitModels = (name :> NewJitModel(name, "nestml")) @@ @]

\* The build thread of a model fails: nothing is installed.
JitThreadFail(w, i) == [w EXCEPT !.threads[i].state = "failed"]

\* The build thread of a model ends: the module is built and installed.
JitThreadRun(w, i) ==
    [w EXCEPT !.threads[i].state = "finished",
              !.nest.models = @ \cup {w.threads[i].model}]

\* -------------------------------------------------------------------- inputs
ParamsChoices ==
    {<<>>, <<<<"tau", Scalar(1)>>>>, <<<<"tau", ListOf(<<1, 2>>)>>>>}

PositionsChoices == {NoPositions, <<2, 1>>}

\* The dicts passed to set.
SetCollections ==
    {<<<<k, Scalar(v)>>>> : k \in Keys, v \in Val}
    \cup {<<<<k, ListOf(x)>>>> : k \in Keys, x \in {<<1, 2>>}}
    \cup {<<<<"tau", ListOf(x)>>>> : x \in {<<>>, <<2>>}}
    \cup {<<<<"tau", Scalar(1)>>, <<"V", Scalar(2)>>>>}
    \cup {<<<<"w", Scalar(1)>>>>}

\* The lists of ids passed to set for a model with n ids handed out.
IdLists(n) == SeqsUpTo(0..(n - 1), 2) \ {<<>>}

\* The dicts passed to setDefaults.
DefaultsChoices ==
    {<<<<k, <<v>>>>>> : k \in Keys, v \in Val} \cup {<<<<"w", <<1>>>>>>}

\* The keys used to derive a collection from a node.
SliceKeys == {<<IntElem(0)>>, <<IntElem(0), IntElem(1)>>}

KeyOrders == {<<"tau", "V">>, <<"V", "tau">>}

\* --------------------------------------------------------------- the system
SysInit ==
    /\ JitModels = <<>>
    /\ heap = <<>>
    /\ nextFree = [m \in ModelNames |-> 0]
    /\ proxies = <<>>
    /\ nest = [models |-> BuiltIn, nextId |-> 1, log |-> <<>>]
    /\ threads = <<>>
    /\ indexer = [m \in ModelNames |-> <<>>]
    /\ externalModels = <<>>
    /\ lastSet = [m \in ModelNames |-> [k \in Keys |-> [id \in 0..(MaxIds - 1) |-> Unset]]]
    /\ contractOk = TRUE
    /\ used = [creates |-> 0, calls |-> 0, conversions |-> 0]
    /\ ret = Ret("init", "ok", "", 0, 0, <<>>)

\* Create(modelName, n, params, positions)
DoCreate(modelName, n, params, positions) ==
    /\ used.creates < MaxCreates
    /\ nextFree[modelName] + GetParamsSize(n, positions) <= MaxIds
    /\ LET w == CreateHelperCreate(World, modelName, n, params, positions)
       IN  /\ Commit(w)
           /\ ret' = Ret("Create", w.err, CreatePath(World, modelName), Len(w.proxies),
                         GetParamsSize(n, positions), <<modelName>>)
    /\ used' = [used EXCEPT !.creates = @ + 1]

\* JitNode.set(collection, ids) on node i of collection c; ids = <<>> stands
\* for None (every id of the node).
DoSet(c, i, collection, ids) ==
    /\ used.calls < MaxCalls
    /\ proxies[c].kind = "jit"
    /\ LET node == proxies[c].nodes[i]
           w == ModelSet(World, node.name,
                         IF ids = <<>> THEN IdsRange(node.first, node.last) ELSE IdsList(ids),
                         collection)
       IN  /\ Commit(IF w.err = "ok" THEN [w EXCEPT !.proxies[c].nodes[i].isDefault = FALSE]
                     ELSE w)
           /\ ret' = Ret("set", w.err, "", c, 0,
                         <<IF ids = <<>> THEN PyRange(node.first, node.last) ELSE ids,
                           collection>>)
    /\ used' = [used EXCEPT !.calls = @ + 1]

\* JitModel.setDefaults(dicOfParams) on model m
DoSetDefaults(m, dicOfParams) ==
    /\ used.calls < MaxCalls
    /\ LET w == JitModelSetDefaults(World, m, dicOfParams)
       IN  /\ Commit(w)
           /\ ret' = Ret("setDefaults", w.err, "", 0, 0, <<m, dicOfParams>>)
    /\ used' = [used EXCEPT !.calls = @ + 1]

\* An indexing that narrows the indexed node to the first sub-range.
AfterGetItemNarrowed(node, r) == IF r.res = "list" THEN r.nodes[1] ELSE node

\* The indexed node after node[key] returned r: __getitem__ and __getNodesAt
\* assign no field of self.
AfterGetItem(node, r) == node

\* node[key] on node i of collection c, wrapped in a new JitNodeCollection
\* (isNotInitial keeps its default, True).
DoSlice(c, i, key) ==
    /\ used.calls < MaxCalls
    /\ proxies[c].kind = "jit"
    /\ LET r == GetItem(proxies[c].nodes[i], key, FALSE)
           kept == [proxies EXCEPT ![c].nodes[i] = AfterGetItem(@, r)]
       IN  /\ proxies' = IF r.res = "list"
                         THEN Append(kept, JitNodeCollection(r.nodes, TRUE, "slice", 0))
                         ELSE kept
           /\ ret' = Ret("slice", r.res, "", Len(proxies'), 0, <<>>)
    /\ used' = [used EXCEPT !.calls = @ + 1]
    /\ UNCHANGED <<JitModels, heap, nextFree, nest, threads, indexer, externalModels,
                   lastSet, contractOk>>

\* JitNodeCollection.createNodeCollection() on collection c
DoMaterialize(c, keys) ==
    /\ used.conversions < MaxConversions
    /\ proxies[c].kind = "jit"
    /\ LET w == CollectionCreateNodeCollection(World, c, keys)
       IN  /\ Commit(w)
           /\ ret' = Ret("createNodeCollection", w.err, "", c, 0, <<>>)
    /\ used' = [used EXCEPT !.conversions = @ + 1]

\* A build thread runs to its end.
DoThreadRun(i) ==
    /\ threads[i].state = "running"
    /\ Commit(JitThreadRun(World, i))
    /\ ret' = Ret("thread", "ok", "", 0, 0, <<threads[i].model>>)
    /\ UNCHANGED used

\* A build thread ends with a failure.
DoThreadFail(i) ==
    /\ threads[i].state = "running"
    /\ Commit(JitThreadFail(World, i))
    /\ ret' = Ret("thread", "failed", "", 0, 0, <<threads[i].model>>)
    /\ UNCHANGED used

\* JitNodeCollection.getNestIds() on collection c
DoGetNestIds(c) ==
    /\ used.calls < MaxCalls
    /\ proxies[c].kind = "jit"
    /\ LET r == CollectionGetNestIds(World, c)
       IN  ret' = Ret("getNestIds", r.err, "", c, 0, r.ids)
    /\ used' = [used EXCEPT !.calls = @ + 1]
    /\ UNCHANGED <<JitModels, heap, nextFree, proxies, nest, threads, indexer,
                   externalModels, lastSet, contractOk>>

\* a + b for the collections a and b
DoAdd(a, b) ==
    /\ used.calls < MaxCalls
    /\ proxies[a].kind = "jit" /\ proxies[b].kind = "jit"
    /\ LET w == CollectionAdd(World, a, b)
       IN  /\ Commit(w)
           /\ ret' = Ret("add", w.err, "", Len(w.proxies), 0, <<a, b>>)
    /\ used' = [used EXCEPT !.calls = @ + 1]

\* CreateHelper.registerModels([model]) for the model of a name
DoRegisterModels(name) ==
    /\ used.creates < MaxCreates
    /\ Commit(RegisterModels(World, name))
    /\ ret' = Ret("registerModels", "ok", "", 0, 0, <<name>>)
    /\ used' = [used EXCEPT !.creates = @ + 1]

\* JitModel.createNodeCollection(params) on the registered model m, with
\* params what get returns for the ids handed out so far.
DoModelCreateNodeCollection(m, keys) ==
    /\ used.conversions < MaxConversions
    /\ LET params == JitModelGet(JitModels[m], heap, GetIds(World, m), keys, TRUE)
           w == IF params.err # "ok" THEN [World EXCEPT !.err = params.err]
                ELSE JitModelCreateNodeCollection(World, m, params)
       IN  /\ Commit(w)
           /\ ret' = Ret("JitModel.createNodeCollection", w.err, "", 0, 0, <<m>>)
    /\ used' = [used EXCEPT !.conversions = @ + 1]

\* JitModel.get(ids, items, onlyChanged) on model m; the returned dict is
\* the last argument recorded.
DoGet(m, ids, items, onlyChanged) ==
    /\ used.calls < MaxCalls
    /\ LET r == JitModelGet(JitModels[m], heap, ids, items, onlyChanged)
       IN  ret' = Ret("get", r.err, "", 0, 0, <<m, ids, items, onlyChanged, r>>)
    /\ used' = [used EXCEPT !.calls = @ + 1]
    /\ UNCHANGED <<JitModels, heap, nextFree, proxies, nest, threads, indexer,
                   externalModels, lastSet, contractOk>>

\* model.root if model.root else name: root is None in every model, since
\* only CopyModel.handleJitModel assigns it, after the call that raises.
RootOf(model, name) == name

\* f"{a}__with_{b}"
WithName(a, b) == a \o "__with_" \o b

\* utils.py lines 78-80 and 169-171: the record of the root synapse is
\* stored under the new name as well, and then renamed: one object under
\* two keys, whose name is the new one.
RegisterPaired(models, rootSynapse, newSynapseName) ==
    LET renamed == [models[rootSynapse] EXCEPT !.name = newSynapseName]
    IN  (newSynapseName :> renamed) @@ [models EXCEPT ![rootSynapse] = renamed]

\* handleNestmlNestml and handleBuiltinBuiltin up to the registration: the
\* lookups of lines 56-57 (KeyError), the write of synapse_model into the
\* synapse's defaults (line 64), the creation parameters of the neuron
\* (line 68, KeyError when none are cached), the registration.
PairModels(w, neuronName, synapseName) ==
    IF {neuronName, synapseName} \ DOMAIN w.JitModels # {} THEN [w EXCEPT !.err = "KeyError"]
    ELSE LET rootSynapse == RootOf(w.JitModels[synapseName], synapseName)
             rootNeuron == RootOf(w.JitModels[neuronName], neuronName)
             old == w.JitModels[synapseName].default
             w1 == [w EXCEPT !.JitModels[synapseName].default =
                       [k \in DOMAIN old \cup {"synapse_model"} |->
                          IF k = "synapse_model" THEN rootSynapse ELSE old[k]]]
         IN  IF ~w1.JitModels[neuronName].createParams.isSet
             THEN [w1 EXCEPT !.err = "KeyError"]
             ELSE [w1 EXCEPT !.JitModels =
                       RegisterPaired(@, rootSynapse, WithName(rootSynapse, rootNeuron))]

\* handleNestmlNestml: after the registration the paired neuron is generated,
\* built and installed, and the engine creates its instances.
HandleNestmlNestml(w, neuronName, synapseName) ==
    LET w1 == PairModels(w, neuronName, synapseName)
        newNeuronName == WithName(neuronName, synapseName)
    IN  IF w1.err # "ok" THEN w1
        ELSE NestCreate([w1 EXCEPT !.nest.models = @ \cup {newNeuronName}],
                        newNeuronName, w1.JitModels[neuronName].createParams.n,
                        "handleNestmlNestml")

\* handleBuiltinBuiltin: nothing is done unless both models are external;
\* the engine is asked for the paired neuron without a build.
HandleBuiltinBuiltin(w, neuronName, synapseName) ==
    IF {neuronName, synapseName} \ Range(w.externalModels) # {} THEN w
    ELSE LET w1 == PairModels(w, neuronName, synapseName)
         IN  IF w1.err # "ok" THEN w1
             ELSE NestCreate(w1, WithName(neuronName, synapseName),
                             w1.JitModels[neuronName].createParams.n, "handleBuiltinBuiltin")

\* handleNestmlNestml / handleBuiltinBuiltin for a collection of the model
\* neuronName and the synapse synapseName
DoPair(handler, neuronName, synapseName) ==
    /\ used.calls < MaxCalls
    /\ LET w == IF handler = "handleNestmlNestml"
                THEN HandleNestmlNestml(World, neuronName, synapseName)
                ELSE HandleBuiltinBuiltin(World, neuronName, synapseName)
       IN  /\ Commit(w)
           /\ ret' = Ret("pair", w.err, handler, 0, 0, <<neuronName, synapseName>>)
    /\ used' = [used EXCEPT !.calls = @ + 1]

\* CopyModel.handleJitModel: JitModel.__init__ has no parameter variables,
\* so the call of lines 36-38 raises before anything is registered.
CopyModelHandleJitModel(w, old, new, newDefault) == [w EXCEPT !.err = "TypeError"]

\* The engine's CopyModel(old, new, newDefault): new becomes a model of the
\* engine when old is one.
NestCopyModel(w, old, new) ==
    IF old \in w.nest.models THEN [w EXCEPT !.nest.models = @ \cup {new}]
    ELSE [w EXCEPT !.err = "NESTError"]

\* CopyModel.handleBuiltIn
CopyModelHandleBuiltIn(w, old, new, newDefault) == NestCopyModel(w, old, new)

\* CopyModel.handleExternLib: the module is installed, then as handleBuiltIn.
CopyModelHandleExternLib(w, old, new, newDefault) ==
    CopyModelHandleBuiltIn([w EXCEPT !.nest.models = @ \cup {old}], old, new, newDefault)

\* CopyModel.handleNestml: the call JitModel(name, variables) of line 57
\* raises as the one of handleJitModel does, before the model is registered
\* (line 59) and before the thread is made and started (lines 66-69).
CopyModelHandleNestml(w, old, new, newDefault) == [w EXCEPT !.err = "TypeError"]

\* The handler CopyModel.copyModel dispatches to.
CopyPath(w, old) ==
    IF old \in DOMAIN w.JitModels THEN "handleJitModel"
    ELSE IF old \in w.nest.models THEN "handleBuiltIn"
    ELSE IF IsLib(old) THEN "handleExternLib"
    ELSE "handleNestml"

\* CopyModel.copyModel
CopyModelCopyModel(w, old, new, newDefault) ==
    LET path == CopyPath(w, old)
    IN  IF path = "handleJitModel" THEN CopyModelHandleJitModel(w, old, new, newDefault)
        ELSE IF path = "handleBuiltIn" THEN CopyModelHandleBuiltIn(w, old, new, newDefault)
        ELSE IF path = "handleExternLib" THEN CopyModelHandleExternLib(w, old, new, newDefault)
        ELSE CopyModelHandleNestml(w, old, new, newDefault)

\* CopyModel(old, new, newDefault).copyModel()
DoCopyModel(old, new, newDefault) ==
    /\ used.calls < MaxCalls
    /\ LET w == CopyModelCopyModel(World, old, new, newDefault)
       IN  /\ Commit(w)
           /\ ret' = Ret("copyModel", w.err, CopyPath(World, old), 0, 0,
                         <<old, new, newDefault>>)
    /\ used' = [used EXCEPT !.calls = @ + 1]

\* ------------------------------------------------------- indexing harness
idxvars == <<idxNode, idxKey, idxStrict, idxRes>>

posvars == <<posNodes, posAt, posRes, slcKey, slcRes>>

vars == <<sysvars, idxvars, posvars>>

NotCalled == Outcome("not called")

BoolElems == [b : {TRUE}, v : {0, 1}]
IntElems == [b : {FALSE}, v : -1..MaxLen]

\* Ascending lists of distinct positions of a range of length n.
AscendingKeys(n) ==
    {[i \in 1..Cardinality(S) |-> IntElem(SortedSeq(S)[i])] : S \in SUBSET (0..(n - 1))}

\* Boolean masks of length 1 .. n.
MaskKeys(n) == SeqsUpTo(BoolElems, n) \ {<<>>}

\* The list keys tried on a range of length n.
ListKeys(n) ==
    SeqsUpTo(BoolElems \cup IntElems, MaxKeyLen) \cup AscendingKeys(n) \cup MaskKeys(n + 1)

IdxInit ==
    /\ \E first \in 0..MaxFirst, n \in 0..MaxLen :
         /\ idxNode = JitNode("A", first, first + n)
         /\ idxKey \in ListKeys(n)
    /\ idxStrict \in BOOLEAN
    /\ idxRes = NotCalled

\* node[key] for a list key.
IndexByList ==
    /\ idxRes = NotCalled
    /\ idxRes' = GetItemList(idxNode, idxKey, idxStrict)
    /\ UNCHANGED <<idxNode, idxKey, idxStrict>>

\* The position harness at rest.
PosIdle ==
    /\ posNodes = <<>>
    /\ posAt = 0
    /\ posRes = [res |-> "not called", node |-> JitNode("", 0, 0), pos |-> 0, at |-> 0]
    /\ slcKey = <<>>
    /\ slcRes = Outcome("not called")

\* The indexing harness at rest.
IdxIdle ==
    /\ idxNode = JitNode("A", 0, 0)
    /\ idxKey = <<>>
    /\ idxStrict = FALSE
    /\ idxRes = NotCalled

IdxNext == IndexByList /\ UNCHANGED <<sysvars, posvars>>

\* ----------------------------------------------------- the key harness
\* The keys of every kind tried on a range.
Bounds == {None} \cup {Some(n) : n \in -3..(MaxLen + 1)}

ItemKeys ==
    {IntKey(k) : k \in (-MaxLen - 1)..(MaxLen + 1)}
        \cup {SliceKey(a, b, st) : a \in Bounds, b \in Bounds,
                                   st \in {None, Some(0), Some(1), Some(2)}}
        \cup {ListKey(e) : e \in SeqsUpTo(BoolElems \cup IntElems, MaxKeyLen)}

ItemInit ==
    /\ \E first \in 0..MaxFirst, n \in 0..MaxLen : idxNode = JitNode("A", first, first + n)
    /\ idxKey \in ItemKeys
    /\ idxStrict \in BOOLEAN
    /\ idxRes = NotCalled

\* node[key] for a key of any kind.
IndexByKey ==
    /\ idxRes = NotCalled
    /\ idxRes' = GetItem(idxNode, idxKey, idxStrict)
    /\ UNCHANGED <<idxNode, idxKey, idxStrict>>

ItemNext == IndexByKey /\ UNCHANGED <<sysvars, posvars>>

\* Indexing one range by one key of any kind, for every range and key in
\* the bounds.  The registries stay empty.
KeyInit == SysInit /\ ItemInit /\ PosIdle

SpecItem == KeyInit /\ [][ItemNext]_vars

\* ------------------------------------------------- the position harness
\* The sum of the lengths of the first n nodes.
RECURSIVE SumLens(_, _)
SumLens(nodes, n) ==
    IF n = 0 THEN 0 ELSE SumLens(nodes, n - 1) + NodeLen(nodes[n])

\* JitNodeCollection.__len__
CollectionLen(nodes) ==
    IF nodes # <<>> THEN SumLens(nodes, Len(nodes)) ELSE 0

\* JitNodeCollection.tolist
CollectionToList(nodes) == Flatten([i \in 1..Len(nodes) |-> ToList(nodes[i])])

NoNode == JitNode("", 0, 0)

\* What getNodeAndRelativePos returns: the node and the position in it.  at is
\* history: the place of the node in the collection's list (0: none).
Resolved(res, node, pos, at) == [res |-> res, node |-> node, pos |-> pos, at |-> at]

\* A block test that leaves out the last position of the block.
InBlockOpenEnd(globalPos, blockStartsAt, blockEndsAt) ==
    globalPos >= blockStartsAt /\ globalPos < blockEndsAt

\* The test of line 675.
InBlock(globalPos, blockStartsAt, blockEndsAt) ==
    globalPos >= blockStartsAt /\ globalPos <= blockEndsAt

\* The loop of lines 672-678; i is the next node, blockEndsAt as the previous
\* turn left it.
RECURSIVE PosLoop(_, _, _, _)
PosLoop(nodes, i, blockEndsAt, globalPos) ==
    IF i > Len(nodes) THEN Resolved("IndexError", NoNode, 0, 0)
    ELSE LET blockStartsAt == blockEndsAt + 1
             newEnd == blockStartsAt + NodeLen(nodes[i]) - 1
         IN  IF InBlock(globalPos, blockStartsAt, newEnd)
             THEN Resolved("ok", nodes[i], globalPos - blockStartsAt, i)
             ELSE PosLoop(nodes, i + 1, newEnd, globalPos)

\* JitNodeCollection.getNodeAndRelativePos
GetNodeAndRelativePos(nodes, globalPos) == PosLoop(nodes, 1, -1, globalPos)

NotResolved == Resolved("not called", NoNode, 0, 0)

\* The ranges a collection may hold: any first id, empty ranges included.
Blocks == {JitNode("A", first, first + n) : first \in 0..MaxFirst, n \in 0..MaxBlock}

PosInit ==
    /\ posNodes \in SeqsUpTo(Blocks, MaxNodes)
    /\ posAt \in -2..(MaxNodes * MaxBlock + 1)
    /\ posRes = NotResolved
    /\ slcKey = <<>>
    /\ slcRes = NotCalled

\* collection.getNodeAndRelativePos(p)
ResolvePosition ==
    /\ posRes = NotResolved
    /\ posRes' = GetNodeAndRelativePos(posNodes, posAt)
    /\ UNCHANGED <<posNodes, posAt, slcKey, slcRes>>

PosNext == ResolvePosition /\ UNCHANGED <<sysvars, idxvars>>

\* Resolving one position in one collection, for every collection and
\* position in the bounds.  The registries stay empty.
PositionInit == SysInit /\ IdxIdle /\ PosInit

SpecPos == PositionInit /\ [][PosNext]_vars

\* ---------------------------------------------------- the slicing harness
\* The places of the owning nodes in the order in which the resolved
\* positions first name them.
RECURSIVE OwnersInOrder(_, _, _)
OwnersInOrder(rs, j, acc) ==
    IF j > Len(rs) THEN acc
    ELSE OwnersInOrder(rs, j + 1,
                       IF rs[j].at \in Range(acc) THEN acc ELSE Append(acc, rs[j].at))

\* The local offsets, in order, of the resolved positions owned by node i.
RECURSIVE OffsetsOf(_, _, _, _)
OffsetsOf(rs, i, j, acc) ==
    IF j > Len(rs) THEN acc
    ELSE OffsetsOf(rs, i, j + 1,
                   IF rs[j].at = i THEN Append(acc, IntElem(rs[j].pos)) ELSE acc)

\* A regrouping that looks at the ids only, not at the node that owns them.
SliceByOwnerFusing(nodes, rs) ==
    LET groups == GroupByDistance([j \in 1..Len(rs) |-> rs[j].node.first + rs[j].pos])
    IN  [res |-> "list",
         nodes |-> [g \in 1..Len(groups) |->
                      JitNode(rs[1].node.name, groups[g][1], groups[g][2])]]

\* The positions grouped by owning node; each owner makes the sub-ranges of
\* its offsets (node[offsets]) and the results are concatenated.
SliceByOwner(nodes, rs) ==
    LET owners == OwnersInOrder(rs, 1, <<>>)
        parts == [o \in 1..Len(owners) |->
                    GetItemList(nodes[owners[o]], OffsetsOf(rs, owners[o], 1, <<>>), FALSE)]
    IN  IF \E o \in 1..Len(owners) : parts[o].res # "list"
        THEN Outcome(parts[CHOOSE o \in 1..Len(owners) :
                             /\ parts[o].res # "list"
                             /\ \A q \in 1..(o - 1) : parts[q].res = "list"].res)
        ELSE [res |-> "list", nodes |-> Flatten([o \in 1..Len(owners) |-> parts[o].nodes])]

\* collection[key] for a non-empty list of positions: each position is
\* resolved to its node and offset (getNodeAndRelativePos), then regrouped.
CollectionGetItem(nodes, key) ==
    LET rs == [j \in 1..Len(key) |-> GetNodeAndRelativePos(nodes, key[j])]
    IN  IF \E j \in 1..Len(key) : rs[j].res # "ok" THEN Outcome("IndexError")
        ELSE SliceByOwner(nodes, rs)

\* The ranges a sliced collection may hold: two models, two first ids.
SliceBlocks ==
    {JitNode(name, first, first + n) :
        name \in {"A", "B"}, first \in {0, 3}, n \in 0..MaxSliceBlock}

\* Ascending lists of distinct positions up to n, the position n (one past
\* the end of a collection of length n) included; never the empty list.
AscendingPositions(n) == {SortedSeq(S) : S \in (SUBSET (0..n)) \ {{}}}

SliceInit ==
    /\ posNodes \in SeqsUpTo(SliceBlocks, MaxSliceNodes) \ {<<>>}
    /\ slcKey \in AscendingPositions(CollectionLen(posNodes))
    /\ slcRes = NotCalled
    /\ posAt = 0
    /\ posRes = NotResolved

\* collection[key]
SliceCollection ==
    /\ slcRes = NotCalled
    /\ slcRes' = CollectionGetItem(posNodes, slcKey)
    /\ UNCHANGED <<posNodes, posAt, posRes, slcKey>>

SliceNext == SliceCollection /\ UNCHANGED <<sysvars, idxvars>>

\* Slicing one collection by one list of positions, for every collection and
\* list in the bounds.  The registries stay empty.
SlicingInit == SysInit /\ IdxIdle /\ SliceInit

SpecSlice == SlicingInit /\ [][SliceNext]_vars

\* Indexing one range by one key, for every range and key in the bounds.
\* The registries stay empty.
IndexInit == SysInit /\ IdxInit /\ PosIdle

SpecIndex == IndexInit /\ [][IdxNext]_vars

\* ----------------------------------------------------------- specification
Init == SysInit /\ IdxIdle /\ PosIdle

\* Creation requests for the models of names.
CreateStep(names, paramsChoices, positionsChoices) ==
    /\ \E modelName \in names, n \in 0..MaxN, params \in paramsChoices,
          positions \in positionsChoices :
          /\ positions # NoPositions => n = 1
          /\ DoCreate(modelName, n, params, positions)
    /\ UNCHANGED <<idxvars, posvars>>

\* set calls with the dicts of collections, on every id of a node or, with
\* lists, on a list of ids.
SetStep(collections, lists) ==
    /\ \E c \in 1..Len(proxies) : \E i \in 1..Len(proxies[c].nodes) :
          \E collection \in collections :
             \E ids \in {<<>>} \cup (IF lists THEN IdLists(nextFree[proxies[c].nodes[i].name])
                                     ELSE {}) :
                DoSet(c, i, collection, ids)
    /\ UNCHANGED <<idxvars, posvars>>

SetDefaultsStep(choices) ==
    /\ \E m \in DOMAIN JitModels, dicOfParams \in choices :
          DoSetDefaults(m, dicOfParams)
    /\ UNCHANGED <<idxvars, posvars>>

SliceStep ==
    /\ \E c \in 1..Len(proxies) : \E i \in 1..Len(proxies[c].nodes), key \in SliceKeys :
          DoSlice(c, i, ListKey(key))
    /\ UNCHANGED <<idxvars, posvars>>

MaterializeStep ==
    /\ \E c \in 1..Len(proxies), keys \in KeyOrders : DoMaterialize(c, keys)
    /\ UNCHANGED <<idxvars, posvars>>

ThreadStep ==
    /\ \E i \in 1..Len(threads) : DoThreadRun(i)
    /\ UNCHANGED <<idxvars, posvars>>

\* The life of collections: every creation path, a few attribute calls,
\* derived collections, conversion to engine nodes, build threads.
Next ==
    \/ CreateStep(ModelNames, ParamsChoices, PositionsChoices)
    \/ SetStep({<<<<"tau", Scalar(1)>>>>}, FALSE)
    \/ SetDefaultsStep({<<<<"tau", <<2>>>>>>})
    \/ SliceStep
    \/ MaterializeStep
    \/ ThreadStep

Spec == Init /\ [][Next]_vars

\* The attribute engine of one model: plain creation requests, and every set
\* and setDefaults call in the bounds.
AttrNext ==
    \/ CreateStep({"nml"}, {<<>>}, {NoPositions})
    \/ SetStep(SetCollections, TRUE)
    \/ SetDefaultsStep(DefaultsChoices)

SpecAttr == Init /\ [][AttrNext]_vars

SliceStepWith(keys) ==
    /\ \E c \in 1..Len(proxies) : \E i \in 1..Len(proxies[c].nodes), key \in keys :
          DoSlice(c, i, ListKey(key))
    /\ UNCHANGED <<idxvars, posvars>>

ThreadFailStep ==
    /\ \E i \in 1..Len(threads) : DoThreadFail(i)
    /\ UNCHANGED <<idxvars, posvars>>

GetNestIdsStep ==
    /\ \E c \in 1..Len(proxies) : DoGetNestIds(c)
    /\ UNCHANGED <<idxvars, posvars>>

AddStep ==
    /\ \E a, b \in 1..Len(proxies) : DoAdd(a, b)
    /\ UNCHANGED <<idxvars, posvars>>

RegisterStep ==
    /\ \E name \in {"nml"} : DoRegisterModels(name)
    /\ UNCHANGED <<idxvars, posvars>>

ModelConvertStep ==
    /\ \E m \in DOMAIN JitModels, keys \in KeyOrders : DoModelCreateNodeCollection(m, keys)
    /\ UNCHANGED <<idxvars, posvars>>

\* The way to the engine: creation requests for a model built in the
\* background, the end of the build (either way), conversion, the engine ids
\* of collections and of parts of them, and sums of collections.
EngineNext ==
    \/ CreateStep({"nml"}, ParamsChoices, {NoPositions, <<3, 1>>})
    \/ RegisterStep
    \/ ThreadStep
    \/ ThreadFailStep
    \/ MaterializeStep
    \/ ModelConvertStep
    \/ SliceStepWith({<<IntElem(0), IntElem(2)>>, <<IntElem(1)>>})
    \/ GetNestIdsStep
    \/ AddStep

SpecEngine == Init /\ [][EngineNext]_vars

\* The lists of attribute names passed to get.
ItemLists == {<<"tau">>, <<"V", "tau">>, <<"w">>, <<"tau", "w">>}

\* get calls for the given lists of names and flags, on at most most ids.
GetStepWith(itemLists, flags, most) ==
    /\ \E m \in DOMAIN JitModels, items \in itemLists, onlyChanged \in flags :
          \E ids \in SeqsUpTo(0..(nextFree[m] - 1), most) : DoGet(m, ids, items, onlyChanged)
    /\ UNCHANGED <<idxvars, posvars>>

GetStep == GetStepWith(ItemLists, BOOLEAN, 2)

CopyStep ==
    /\ \E old \in DOMAIN JitModels, newDefault \in {<<>>} \cup DefaultsChoices :
          DoCopyModel(old, "copy", newDefault)
    /\ UNCHANGED <<idxvars, posvars>>

\* Reading the attributes of one model: plain creation requests, set calls,
\* get calls and copies of the model.
GetNext ==
    \/ CreateStep({"nml"}, {<<>>}, {NoPositions})
    \/ SetStep({<<<<"tau", Scalar(1)>>>>, <<<<"tau", ListOf(<<1, 2>>)>>>>}, TRUE)
    \/ GetStep
    \/ CopyStep

SpecGet == Init /\ [][GetNext]_vars

RegisterStepWith(names) ==
    /\ \E name \in names : DoRegisterModels(name)
    /\ UNCHANGED <<idxvars, posvars>>

PairStep ==
    /\ \E handler \in {"handleNestmlNestml", "handleBuiltinBuiltin"} :
          \E neuronName \in {"nml", "lib"}, synapseName \in {"syn", "lib"} :
             DoPair(handler, neuronName, synapseName)
    /\ UNCHANGED <<idxvars, posvars>>

\* The registry of models: creation requests for a NESTML model and for a
\* library model, registrations of a neuron and of a synapse, pairings of
\* a neuron with a synapse.
RegistryNext ==
    \/ CreateStep({"nml", "lib"}, {<<>>}, {NoPositions})
    \/ RegisterStepWith({"nml", "syn"})
    \/ PairStep

SpecRegistry == Init /\ [][RegistryNext]_vars

\* node[key] for keys of any kind.
IndexStepWith(keys) ==
    /\ \E c \in 1..Len(proxies) : \E i \in 1..Len(proxies[c].nodes), key \in keys :
          DoSlice(c, i, key)
    /\ UNCHANGED <<idxvars, posvars>>

\* Keys of every kind, some accepted and some refused.
SomeKeys ==
    {IntKey(0), IntKey(-1), IntKey(MaxIds),
     SliceKey(None, Some(1), None), SliceKey(Some(-1), None, None),
     SliceKey(Some(0), Some(1), Some(0)),
     ListKey(<<>>), ListKey(<<IntElem(0), IntElem(1)>>), ListKey(<<IntElem(MaxIds)>>),
     ListKey(<<BoolElem(TRUE)>>)}

\* Everything that reads or passes by the stores of one model: creation
\* requests, set, setDefaults, get, indexing, conversion, the build thread.
StoreNext ==
    \/ CreateStep({"nml"}, {<<>>}, {NoPositions})
    \/ SetStep({<<<<"tau", Scalar(1)>>, <<"V", Scalar(2)>>>>}, TRUE)
    \/ SetDefaultsStep({<<<<"tau", <<2>>>>>>})
    \/ GetStepWith({<<"tau">>}, {FALSE}, 1)
    \/ IndexStepWith(SomeKeys)
    \/ MaterializeStep
    \/ ThreadStep

SpecStore == Init /\ [][StoreNext]_vars

\* ------------------------------------------------------- indexing claims
Called == idxRes # NotCalled

IsIntList(key) == Len(key) > 0 /\ \A i \in 1..Len(key) : ~key[i].b
IsMask(key) == Len(key) > 0 /\ \A i \in 1..Len(key) : key[i].b

\* key is a non-empty ascending list of distinct positions of node.
IsAscendingInRange(node, key) ==
    /\ IsIntList(key)
    /\ \A i \in 1..Len(key) : key[i].v >= 0 /\ key[i].v < NodeLen(node)
    /\ \A i \in 1..(Len(key) - 1) : key[i].v < key[i + 1].v

\* The ids of the returned sub-ranges, concatenated in the order returned.
ReturnedIds(r) == Flatten([g \in 1..Len(r.nodes) |-> ToList(r.nodes[g])])

\* The returned sub-ranges are non-empty, in ascending order, and no two
\* consecutive ones touch.
SeparatedRuns(r) ==
    /\ \A g \in 1..Len(r.nodes) : r.nodes[g].last > r.nodes[g].first
    /\ \A g \in 1..(Len(r.nodes) - 1) : r.nodes[g].last < r.nodes[g + 1].first

\* C4: indexing a range by a non-empty ascending list P of distinct in-range
\* positions and concatenating tolist() of the returned sub-ranges gives
\* exactly [first + p for p in P], in order.
C4_RoundTrip ==
    (Called /\ IsAscendingInRange(idxNode, idxKey)) =>
        /\ idxRes.res = "list"
        /\ ReturnedIds(idxRes) = [i \in 1..Len(idxKey) |-> idxNode.first + idxKey[i].v]

C4_Witness ==
    /\ Called /\ IsAscendingInRange(idxNode, idxKey)
    /\ Len(idxKey) >= 3 /\ Len(idxRes.nodes) >= 2 /\ idxNode.first > 0

\* The number of maximal runs of consecutive positions in an ascending list.
NumRuns(key) ==
    Cardinality({i \in 1..Len(key) : i = 1 \/ key[i].v - key[i - 1].v # 1})

ExampleKey == [i \in 1..6 |-> IntElem(<<0, 1, 2, 5, 6, 9>>[i])]

\* C5: indexing a range with an ascending list of its positions returns one
\* sub-range per maximal contiguous run, in order, no two consecutive
\* sub-ranges adjacent, each translated by the range's first; positions
\* [0,1,2,5,6,9] give three sub-ranges of lengths 3, 2, 1.
C5_MaximalRuns ==
    /\ (Called /\ IsAscendingInRange(idxNode, idxKey)) =>
        /\ idxRes.res = "list"
        /\ Len(idxRes.nodes) = NumRuns(idxKey)
        /\ SeparatedRuns(idxRes)
        /\ Range(ReturnedIds(idxRes)) = {idxNode.first + idxKey[i].v : i \in 1..Len(idxKey)}
        /\ \A g \in 1..Len(idxRes.nodes) : idxRes.nodes[g].name = idxNode.name
    /\ LET r == GetItemList(JitNode("A", 4, 14), ExampleKey, idxStrict)
       IN  /\ r.res = "list"
           /\ r.nodes = <<JitNode("A", 4, 7), JitNode("A", 9, 11), JitNode("A", 13, 14)>>

C5_Witness ==
    /\ Called /\ IsAscendingInRange(idxNode, idxKey)
    /\ Len(idxRes.nodes) = 2 /\ NodeLen(idxRes.nodes[1]) = 2 /\ NodeLen(idxRes.nodes[2]) = 2
    /\ idxRes.nodes[2].first = idxRes.nodes[1].last + 1

\* C6: indexing a range with a boolean mask of the range's length returns
\* sub-ranges that cover exactly the ids first + i of the positions i where
\* the mask is true, regrouped into maximal contiguous runs.
C6_MaskSelects ==
    (Called /\ IsMask(idxKey) /\ Len(idxKey) = NodeLen(idxNode)) =>
        /\ idxRes.res = "list"
        /\ Range(ReturnedIds(idxRes)) =
               {idxNode.first + i - 1 : i \in {j \in 1..Len(idxKey) : idxKey[j].v = 1}}
        /\ SeparatedRuns(idxRes)

C7_WitnessDuplicate ==
    /\ Called /\ idxKey = <<IntElem(1), IntElem(1)>> /\ idxRes = Outcome("ValueError")

C7_WitnessMixed ==
    /\ Called /\ idxKey = <<BoolElem(TRUE), IntElem(1)>> /\ idxRes = Outcome("TypeError")

\* ------------------------------------------------- claims about the lifecycle
\* The call that has just returned was a Create / a createNodeCollection /
\* a setDefaults.
CreateReturned == used'.creates # used.creates
ConversionReturned == used'.conversions # used.conversions
SetDefaultsReturned == ret'.op = "setDefaults" /\ used'.calls # used.calls

\* The collections Create has returned, on any of its paths.
Created(ps) == {c \in 1..Len(ps) : ps[c].origin = "create"}

Disjoint(ps) ==
    \A c, d \in Created(ps) :
        (c # d /\ ps[c].nodes[1].name = ps[d].nodes[1].name)
            => \/ ps[c].nodes[1].last <= ps[d].nodes[1].first
               \/ ps[d].nodes[1].last <= ps[c].nodes[1].first

\* C1: a creation request for n instances of a model, on the JIT, built-in
\* or external-library path, returns the range [f, f + n) where f is the
\* model's next free id before the call, the next free id becomes f + n
\* and never decreases, and the ranges handed out for one model never
\* overlap.
C1_AdjacentDisjoint ==
    [][/\ \A m \in ModelNames : nextFree'[m] >= nextFree[m]
       /\ Disjoint(proxies')
       /\ (CreateReturned /\ ret'.res = "ok")
            => LET m == ret'.arg[1]
                   node == proxies'[ret'.c].nodes[1]
               IN  /\ ret'.c = Len(proxies) + 1
                   /\ node.name = m
                   /\ node.first = nextFree[m]
                   /\ node.last = node.first + ret'.count
                   /\ NodeLen(node) = ret'.count
                   /\ nextFree'[m] = node.last]_vars

\* Two successive requests for one model got adjacent ranges.
C1_Witness ==
    \E c, d \in Created(proxies) :
        /\ c < d
        /\ proxies[c].nodes[1].name = proxies[d].nodes[1].name
        /\ NodeLen(proxies[c].nodes[1]) > 0
        /\ NodeLen(proxies[d].nodes[1]) > 0
        /\ proxies[d].nodes[1].first = proxies[c].nodes[1].last
        /\ nextFree[proxies[d].nodes[1].name] = proxies[d].nodes[1].last

\* C8: a collection that has been converted stays converted, a conversion
\* succeeds only on a collection that was not converted yet, and a conversion
\* asked of a converted collection raises and reaches neither the engine nor
\* the index.
C8_MaterializeOnce ==
    [][/\ \A c \in 1..Len(proxies) : proxies[c].isNotInitial => proxies'[c].isNotInitial
       /\ (ConversionReturned /\ ret'.res = "ok")
            => ~proxies[ret'.c].isNotInitial /\ proxies'[ret'.c].isNotInitial
       /\ (ConversionReturned /\ proxies[ret'.c].isNotInitial)
            => /\ ret'.res = "Exception"
               /\ nest' = nest
               /\ indexer' = indexer
               /\ proxies' = proxies]_vars

\* A second conversion of a collection Create returned has just failed.
C8_Witness ==
    /\ ret.op = "createNodeCollection"
    /\ ret.res = "Exception"
    /\ proxies[ret.c].origin = "create"
    /\ \E i \in 1..Len(nest.log) : nest.log[i].by = "createNodeCollection" /\ nest.log[i].ready
    /\ indexer[proxies[ret.c].nodes[1].name] # <<>>

\* C9: a Create for a JIT model (registered, or compiled from NESTML) does
\* not call the engine's create: it returns an unconverted collection over the
\* new virtual ids, and the engine creates instances of such a model only in
\* a later createNodeCollection.
C9_JitCreateIsLazy ==
    [][/\ (CreateReturned /\ ret'.path \in {"handleJitModel", "handleNestml"})
            => /\ nest'.log = nest.log
               /\ nest'.nextId = nest.nextId
               /\ indexer' = indexer
               /\ ret'.res = "ok"
                    => /\ Len(proxies') = Len(proxies) + 1
                       /\ proxies'[ret'.c].kind = "jit"
                       /\ ~proxies'[ret'.c].isNotInitial
       /\ (nest'.log # nest.log /\ ~ConversionReturned)
            => CreateReturned /\ ret'.path \in {"handleBuiltIn", "handleExternalLib"}]_vars

\* Both JIT paths of Create have returned, and the engine has created nothing.
C9_Witness ==
    /\ ret.op = "Create"
    /\ ret.path = "handleJitModel"
    /\ ret.res = "ok"
    /\ ret.count > 0
    /\ Len(threads) = 1
    /\ Len(proxies) = 2
    /\ nest.log = <<>>

\* C10: the engine's create is never called for a model that is compiled in
\* the background before the model's build thread has finished and installed
\* the module.
C10_CreateAfterInstall ==
    \A i \in 1..Len(nest.log) :
        (\E t \in 1..Len(threads) : threads[t].model = nest.log[i].model)
            => nest.log[i].ready

\* ------------------------------------------- claims about the attribute engine
\* What get(ids = [id], items = [k]) returns for k (Raised: it raises).
Raised == <<-1>>

ObservedIn(models, hp, m, id, k) ==
    LET g == JitModelGet(models[m], hp, <<id>>, <<k>>, FALSE)
    IN  IF g.err # "ok" THEN Raised ELSE g.res[1].vals[1]

Observed(m, id, k) == ObservedIn(JitModels, heap, m, id, k)

Allocated(m) == 0..(nextFree[m] - 1)

\* C2: while every set call has kept set's contract, get returns for every
\* allocated id and key the value of the last set on that id and key, and
\* the model's default where there was none.
C2_SetThenGet ==
    contractOk =>
        \A m \in DOMAIN JitModels : \A k \in Keys : \A id \in Allocated(m) :
            Observed(m, id, k) = IF lastSet[m][k][id] # Unset
                                 THEN lastSet[m][k][id]
                                 ELSE JitModels[m].default[k]

Aligned(m, k) ==
    LET a == JitModels[m].attributes[k]
    IN  a # NoAttr => Len(heap[a.ids]) = Len(a.values)

StoreIdsIn(models, hp, m, k) ==
    IF models[m].attributes[k] = NoAttr THEN <<>> ELSE hp[models[m].attributes[k].ids]

StoreIds(m, k) == StoreIdsIn(JitModels, heap, m, k)

C12_LengthMismatchRaises ==
    (/\ ret.op = "set"
     /\ \E e \in 1..Len(ret.arg[2]) :
           ret.arg[2][e][2].isList /\ Len(ret.arg[2][e][2].x) # Len(ret.arg[1]))
        => ret.res = "ValueError"

\* C13: every store holds one value per id and no id twice.
C13_StoreAligned ==
    \A m \in DOMAIN JitModels : \A k \in AttrNames :
        LET a == JitModels[m].attributes[k]
        IN  a # NoAttr =>
              /\ Len(heap[a.ids]) = Len(a.values)
              /\ \A i, j \in 1..Len(heap[a.ids]) : heap[a.ids][i] = heap[a.ids][j] => i = j

\* C14: every attribute name that has a store in a model is a key of the
\* model's defaults.
C14_OverlayKeysDeclared ==
    \A m \in DOMAIN JitModels : \A k \in AttrNames :
        JitModels[m].attributes[k] # NoAttr => k \in DOMAIN JitModels[m].default

\* --------------------------------------------- claims about the engine ids
\* The model a conversion is asked of.
ConvertedModel ==
    IF ret'.op = "createNodeCollection" THEN proxies[ret'.c].nodes[1].name ELSE ret'.arg[1]

BuildFailed(m) == \E t \in 1..Len(threads) : threads[t].model = m /\ threads[t].state = "failed"

\* C11: a conversion asked for a model whose build has failed raises
\* CompilationError and does not reach the engine's create.
C11_FailedBuildSurfaces ==
    [][(/\ ConversionReturned
        /\ BuildFailed(ConvertedModel)
        /\ ret'.op = "createNodeCollection" => ~proxies[ret'.c].isNotInitial)
         => ret'.res = "CompilationError" /\ nest'.log = nest.log]_vars

\* The entry the engine has logged for the call of this step.
Made == nest'.log[Len(nest'.log)]

\* C15: when the engine has created another number of instances than the
\* range has ids, the conversion raises BindError.
C15_BindMismatchRaises ==
    [][(/\ ConversionReturned
        /\ ret'.op = "createNodeCollection"
        /\ nest'.log # nest.log
        /\ Made.ready
        /\ Made.n # NodeLen(proxies[ret'.c].nodes[1]))
         => ret'.res = "BindError"]_vars

\* C16: after a conversion has returned, getNestIds on the collection
\* succeeds and returns the engine's ids of the created instances, one per
\* virtual id, in order.
C16_EngineIdsAfterConversion ==
    [][(ConversionReturned /\ ret'.op = "createNodeCollection" /\ ret'.res = "ok")
         => LET r == CollectionGetNestIds(World', ret'.c)
            IN  /\ r.err = "ok"
                /\ r.ids = [j \in 1..Made.n |-> Made.first + j - 1]
                /\ Len(r.ids) = NodeLen(proxies[ret'.c].nodes[1])]_vars

\* A range is bound when a recorded range of its model covers it.
Bound(node) ==
    \E e \in 1..Len(indexer[node.name]) :
        indexer[node.name][e].x[1] <= node.first /\ node.last <= indexer[node.name][e].x[2]

\* The engine id of virtual id v of model name.
EngineIdOf(name, v) ==
    LET e == CHOOSE e \in 1..Len(indexer[name]) :
                 indexer[name][e].x[1] <= v /\ v < indexer[name][e].x[2]
    IN  indexer[name][e].y[1] + (v - indexer[name][e].x[1])

\* C17: getNestIds on a collection with a range that is not bound raises
\* NotMaterializedError and returns nothing; on a collection whose ranges
\* are all bound it returns the engine ids of its ranges, in range order.
C17_EngineIdsAllOrNothing ==
    ret.op = "getNestIds" =>
        LET nodes == proxies[ret.c].nodes
        IN  IF \E g \in 1..Len(nodes) : ~Bound(nodes[g])
            THEN ret.res = "NotMaterializedError" /\ ret.arg = <<>>
            ELSE /\ ret.res = "ok"
                 /\ ret.arg = Flatten([g \in 1..Len(nodes) |->
                                  [j \in 1..NodeLen(nodes[g]) |->
                                      EngineIdOf(nodes[g].name, nodes[g].first + j - 1)]])

\* getNestIds has returned the engine ids of two separate parts of a
\* converted collection.
C17_Witness ==
    /\ ret.op = "getNestIds"
    /\ ret.res = "ok"
    /\ Len(proxies[ret.c].nodes) = 2
    /\ Len(ret.arg) = 2
    /\ ret.arg[2] = ret.arg[1] + 2

\* getNestIds has raised for a collection that was not converted.
C17_WitnessUnbound ==
    /\ ret.op = "getNestIds"
    /\ ret.res = "NotMaterializedError"
    /\ \E e \in 1..Len(nest.log) : nest.log[e].ready

\* C18: createNodeCollection on a model whose creation parameters were
\* never cached raises (the generic Exception of the code) and does not
\* call the engine's create.
C18_MissingCreateParams ==
    [][(/\ ConversionReturned
        /\ ~JitModels[ConvertedModel].createParams.isSet
        /\ ret'.op = "createNodeCollection" => ~proxies[ret'.c].isNotInitial)
         => ret'.res = "Exception" /\ nest' = nest /\ indexer' = indexer]_vars

\* createNodeCollection has raised for a registered model without creation
\* parameters.
C18_Witness ==
    /\ ret.op = "JitModel.createNodeCollection"
    /\ ret.res = "Exception"
    /\ ~JitModels[ret.arg[1]].createParams.isSet
    /\ nest.log = <<>>

\* C19: a + b returns a new collection whose ranges are the ranges of a
\* followed by the ranges of b.
C19_MergeConcatenates ==
    ret.op = "add" =>
        /\ ret.res = "ok"
        /\ proxies[ret.c].nodes = proxies[ret.arg[1]].nodes \o proxies[ret.arg[2]].nodes

\* ------------------------------------------- claims about the positions
\* The places (node, offset) of a collection that the global position p names:
\* the lengths of the nodes before it and the offset add up to p.
PlacesOf(nodes, p) ==
    {<<i, o>> \in (1..Len(nodes)) \X (0..MaxBlock) :
        o < NodeLen(nodes[i]) /\ SumLens(nodes, i - 1) + o = p}

\* C20: in a collection of total length T every position p in [0, T) resolves
\* to exactly one (range, offset), the offset lies in the range, and the id
\* there is the p-th element of tolist(); every position outside [0, T),
\* the negative ones included, raises IndexError.
C20_PositionResolves ==
    posRes.res # "not called" =>
        LET total == CollectionLen(posNodes)
            all == CollectionToList(posNodes)
        IN  /\ Len(all) = total
            /\ IF posAt >= 0 /\ posAt < total
               THEN /\ posRes.res = "ok"
                    /\ PlacesOf(posNodes, posAt) = {<<posRes.at, posRes.pos>>}
                    /\ posRes.node = posNodes[posRes.at]
                    /\ ToList(posRes.node)[posRes.pos + 1] = all[posAt + 1]
               ELSE posRes.res = "IndexError"

\* A position in the third range of a collection whose second range is empty.
C20_Witness ==
    /\ posRes.res = "ok"
    /\ posRes.at = 3
    /\ posRes.pos = 1
    /\ NodeLen(posNodes[2]) = 0
    /\ NodeLen(posNodes[1]) = 2

\* Positions outside the collection: a negative one, and the total length.
C20_WitnessNegative ==
    posRes.res = "IndexError" /\ posAt = -1 /\ CollectionLen(posNodes) = 3

C20_WitnessPastEnd ==
    posRes.res = "IndexError" /\ posAt = CollectionLen(posNodes) /\ posAt = 3

\* --------------------------------------- claims about slicing collections
\* The maximal runs of consecutive numbers of S, as half-open pairs in
\* ascending order.
RunsOf(S) ==
    LET starts == SortedSeq({a \in S : a - 1 \notin S})
    IN  [r \in 1..Len(starts) |->
           <<starts[r], Min({x \in S : x >= starts[r] /\ x + 1 \notin S}) + 1>>]

\* The local offsets in node i of the positions of key that fall in node i.
SelectedIn(nodes, key, i) ==
    {key[j] - SumLens(nodes, i - 1) :
        j \in {j \in 1..Len(key) : /\ key[j] >= SumLens(nodes, i - 1)
                                    /\ key[j] < SumLens(nodes, i)}}

\* For each node in order, one sub-range per maximal run of its offsets.
SubRangesByOwner(nodes, key) ==
    Flatten([i \in 1..Len(nodes) |->
               LET runs == RunsOf(SelectedIn(nodes, key, i))
               IN  [r \in 1..Len(runs) |->
                      JitNode(nodes[i].name, nodes[i].first + runs[r][1],
                              nodes[i].first + runs[r][2])]])

\* C21: slicing a collection by an ascending list of positions inside it
\* yields, node by node in order, one sub-range per maximal run of the
\* positions that fall in that node; positions that are consecutive but fall
\* in different nodes are never fused into one sub-range.
C21_SliceGroupsByOwner ==
    (/\ slcRes.res # "not called"
     /\ \A j \in 1..Len(slcKey) : slcKey[j] < CollectionLen(posNodes))
        => /\ slcRes.res = "list"
           /\ slcRes.nodes = SubRangesByOwner(posNodes, slcKey)

\* The scenario: A = [0, 3) and B = [3, 7) sliced at [1, 2, 4, 5, 6].
C21_Witness ==
    /\ posNodes = <<JitNode("A", 0, 3), JitNode("B", 3, 7)>>
    /\ slcKey = <<1, 2, 4, 5, 6>>
    /\ slcRes = [res |-> "list", nodes |-> <<JitNode("A", 1, 3), JitNode("B", 4, 7)>>]

\* Two ranges of one model that touch: the positions 2 and 3 are consecutive
\* ids of different ranges and stay two sub-ranges.
C21_WitnessNotFused ==
    /\ posNodes = <<JitNode("A", 0, 3), JitNode("A", 3, 7)>>
    /\ slcKey = <<2, 3>>
    /\ slcRes = [res |-> "list", nodes |-> <<JitNode("A", 2, 3), JitNode("A", 3, 4)>>]

\* ------------------------------------------------ claims about narrowing
\* The sub-ranges a call returned: the elements of the list, or the one node.
Returned(r) == IF r.res \in {"list", "node"} THEN Range(r.nodes) ELSE {}

\* C22: every sub-range returned by indexing a range R with an integer, a
\* slice or a list lies inside R (R.first <= sub.first and sub.last <= R.last)
\* and has R's model.
C22_SlicingNarrows ==
    Called =>
        \A sub \in Returned(idxRes) :
            /\ idxNode.first <= sub.first
            /\ sub.last <= idxNode.last
            /\ sub.name = idxNode.name

\* C23: every range has last > first: every sub-range returned by indexing
\* a non-empty range, the empty list among the keys, is non-empty.
C23_RangesNonEmpty ==
    (Called /\ idxNode.last > idxNode.first) =>
        \A sub \in Returned(idxRes) : sub.last > sub.first

\* ------------------------------------------------------ claims about get
\* C24: get returns, for each attribute it returns, a scalar exactly when one
\* id was requested and otherwise a sequence, whatever onlyChanged is; names
\* that are not keys of the defaults are dropped without an error.
C24_ScalarForOneId ==
    (ret.op = "get" /\ ret.res = "ok") =>
        LET m == ret.arg[1]
            ids == ret.arg[2]
            r == ret.arg[5]
        IN  /\ Range(r.keys) \subseteq (Range(ret.arg[3]) \cap DOMAIN JitModels[m].default)
            /\ \A j \in 1..Len(r.keys) : r.res[j].one <=> (Len(ids) = 1)

\* ----------------------------------------------------- claims about copies
\* C25: copying a registered JIT model old to new with newDefault succeeds
\* and registers under new a model whose defaults are old's overridden by
\* newDefault and which has no overlays; old's defaults are unchanged.
C25_CopyRegisters ==
    [][(ret'.op = "copyModel" /\ used'.calls # used.calls)
         => LET old == ret'.arg[1]
                new == ret'.arg[2]
                newDefault == ret'.arg[3]
            IN  /\ ret'.res = "ok"
                /\ new \in DOMAIN JitModels'
                /\ \A k \in DOMAIN JitModels[old].default :
                      JitModels'[new].default[k] =
                          IF \E e \in 1..Len(newDefault) : newDefault[e][1] = k
                          THEN (CHOOSE e \in Range(newDefault) : e[1] = k)[2]
                          ELSE JitModels[old].default[k]
                /\ \A k \in DOMAIN JitModels'[new].attributes :
                      JitModels'[new].attributes[k] = NoAttr
                /\ JitModels'[old].default = JitModels[old].default]_vars

\* ------------------------------------------- claims about pinning defaults
\* C26: setDefaults({k: v}) writes, for every allocated id that has no
\* override for k, an override equal to the previous default of k, and then
\* replaces the default; right after the call get returns the previous
\* default of k for those ids.
C26_PinsBeforeReplacing ==
    [][(SetDefaultsReturned /\ ret'.res = "ok")
         => LET m == ret'.arg[1]
                dic == ret'.arg[2]
            IN  \A e \in 1..Len(dic) :
                  LET k == dic[e][1]
                  IN  /\ JitModels'[m].default[k] = dic[e][2]
                      /\ \A id \in Allocated(m) \ Range(StoreIds(m, k)) :
                            /\ id \in Range(StoreIdsIn(JitModels', heap', m, k))
                            /\ ObservedIn(JitModels', heap', m, id, k)
                                   = JitModels[m].default[k]]_vars

\* -------------------------------------------- claims about keeping overrides
\* C27: no step removes an override: a store that exists keeps existing, and
\* every id in a store of a model stays in that store.
C27_OverridesKept ==
    [][\A m \in DOMAIN JitModels : \A k \in DOMAIN JitModels[m].attributes :
          /\ m \in DOMAIN JitModels'
          /\ JitModels[m].attributes[k] # NoAttr => JitModels'[m].attributes[k] # NoAttr
          /\ Range(StoreIds(m, k)) \subseteq Range(StoreIdsIn(JitModels', heap', m, k))]_vars

\* A second set, on other ids, has grown a store that a first call made.
C27_Witness ==
    /\ ret.op = "set"
    /\ ret.res = "ok"
    /\ used.calls = 2
    /\ \E m \in DOMAIN JitModels :
          /\ Cardinality(Range(StoreIds(m, "tau"))) >= 2
          /\ \E id \in Range(StoreIds(m, "tau")) : id \notin Range(ret.arg[1])

\* A conversion has returned for a collection whose model has a store.
C27_WitnessConverted ==
    /\ ret.op = "createNodeCollection"
    /\ ret.res = "ok"
    /\ \E m \in DOMAIN JitModels : StoreIds(m, "tau") # <<>>

\* ------------------------------------------------ claims about frame effects
\* C28: indexing a range changes nothing but what it returns: the models
\* (defaults and stores), the id lists the stores hold, the next free ids and
\* every collection that existed (the indexed range's first, last and
\* isDefault among them) are the same after the call, whether it returned
\* sub-ranges or raised.
C28_IndexingReadsOnly ==
    [][(ret'.op = "slice" /\ used'.calls # used.calls)
         => /\ JitModels' = JitModels
            /\ heap' = heap
            /\ nextFree' = nextFree
            /\ \A c \in 1..Len(proxies) : proxies'[c] = proxies[c]]_vars

\* An indexing has returned sub-ranges of a range whose model has a store.
C28_Witness ==
    /\ ret.op = "slice"
    /\ ret.res = "list"
    /\ \E m \in DOMAIN JitModels : StoreIds(m, "tau") # <<>>
    /\ ~proxies[1].nodes[1].isDefault

\* An indexing has raised on such a range.
C28_WitnessRaised ==
    /\ ret.op = "slice"
    /\ ret.res = "IndexError"
    /\ \E m \in DOMAIN JitModels : StoreIds(m, "tau") # <<>>

\* --------------------------------------- claims about positions out of range
\* The positions a key names: the int, the ints of a list of distinct ints,
\* the positions range(start, stop, step) lists for a slice with step >= 1.
PositionsOf(node, key) ==
    IF key.kind = "int" THEN {key.v}
    ELSE IF key.kind = "list"
    THEN IF IsIntList(key.elems) /\ ~HasRepeatedIndex(key.elems)
         THEN {key.elems[i].v : i \in 1..Len(key.elems)}
         ELSE {}
    ELSE LET start == IF key.start.isNone THEN 0 ELSE key.start.v
             stop == IF key.stop.isNone THEN NodeLen(node) ELSE key.stop.v
             step == IF key.step.isNone THEN 1 ELSE key.step.v
         IN  IF step >= 1 THEN Range(PyRangeStep(start, stop, step)) ELSE {}

\* C29: indexing a range with a position outside [0, len), as an int, in a
\* list of ints or among the positions of a slice, raises IndexError; it
\* returns neither sub-ranges nor None.
C29_OutsideRaises ==
    (Called /\ \E p \in PositionsOf(idxNode, idxKey) : p < 0 \/ p >= NodeLen(idxNode))
        => idxRes = Outcome("IndexError")

\* ------------------------------------------------ claims about the registry
\* C30: every model in the registry has the name it is registered under
\* (so that distinct keys hold distinct records), also after a neuron has
\* been paired with a synapse.
C30_NameIsKey ==
    \A key \in DOMAIN JitModels : JitModels[key].name = key

\* ------------------------------------------------- claims about conversion
\* The conversion of an unconverted collection of a model whose creation
\* parameters are cached has just returned.
InitialConverted ==
    /\ ConversionReturned
    /\ ret'.op = "createNodeCollection"
    /\ ~proxies[ret'.c].isNotInitial
    /\ JitModels[proxies[ret'.c].nodes[1].name].createParams.isSet

\* C31: the conversion of an unconverted collection whose range has n ids
\* calls the engine's create once, for exactly n instances, whichever of the
\* range's ids carry overrides (none, one, some, all).
C31_AsksForEveryId ==
    [][InitialConverted
         => /\ Len(nest'.log) = Len(nest.log) + 1
            /\ Made.n = NodeLen(proxies[ret'.c].nodes[1])]_vars

\* What the conversion passes to the engine for attribute k of the range
\* node: the result of get(ids = the range, items = keys, onlyChanged) for k,
\* as the sequence Create receives (<<>>: k is not passed; a scalar is not a
\* sequence and is recorded by one = TRUE).
PassedFor(node, keys, k) ==
    LET params == JitModelGet(JitModels[node.name], heap, ToList(node), keys, TRUE)
        at == {j \in 1..Len(params.keys) : params.keys[j] = k}
    IN  IF params.err # "ok" \/ at = {} THEN [passed |-> FALSE, one |-> FALSE, vals |-> <<>>]
        ELSE LET j == CHOOSE j \in at : TRUE
             IN  [passed |-> TRUE, one |-> params.res[j].one, vals |-> params.res[j].vals]

\* C32: for every attribute passed to the engine by a conversion that
\* succeeds, the value at position i of the sequence passed is the value the
\* id first + i observes, for every id of the range.
C32_ValuesAlignedWithIds ==
    [][(InitialConverted /\ ret'.res = "ok")
         => LET node == proxies[ret'.c].nodes[1]
            IN  \A k \in Keys :
                  LET p == PassedFor(node, CHOOSE keys \in KeyOrders : TRUE, k)
                  IN  p.passed
                        => /\ ~p.one
                           /\ Len(p.vals) = NodeLen(node)
                           /\ \A i \in 1..NodeLen(node) :
                                 p.vals[i] = Observed(node.name, node.first + i - 1, k)]_vars

\* --------------------------------------------- claims about later creations
\* The ids a creation request on the JIT path has just handed out.
NewIds(m) == nextFree[m]..(nextFree'[m] - 1)

\* A setDefaults that has returned leaves what every allocated id observes.
EarlierIdsKeep ==
    (SetDefaultsReturned /\ ret'.res = "ok")
       => LET m == ret'.arg[1]
              dic == ret'.arg[2]
          IN  \A e \in 1..Len(dic) :
                /\ JitModels'[m].default[dic[e][1]] = dic[e][2]
                /\ \A id \in Allocated(m) :
                      ObservedIn(JitModels', heap', m, id, dic[e][1])
                          = Observed(m, id, dic[e][1])

\* The ids of a later creation request that sets nothing observe the
\* default in force, and only setDefaults changes the default in force.
LaterIdsObserveDefault ==
    /\ (CreateReturned /\ ret'.res = "ok" /\ ret'.path = "handleJitModel")
          => LET m == ret'.arg[1]
             IN  \A id \in NewIds(m) : \A k \in Keys :
                    JitModels'[m].attributes[k] = JitModels[m].attributes[k]
                       => ObservedIn(JitModels', heap', m, id, k) = JitModels[m].default[k]
    /\ ~SetDefaultsReturned
          => \A m \in DOMAIN JitModels : JitModels'[m].default = JitModels[m].default

\* C33: after setDefaults({k: v}) the ids handed out by later creation
\* requests, unless they are set, observe v for k, and the ids handed out
\* before the call observe what they observed before it.
C33_DefaultsForLaterIds ==
    [][EarlierIdsKeep /\ LaterIdsObserveDefault]_vars

\* ------------------------------------------------ claims about failing calls
\* Dicts with two attributes passed to set: a scalar or a list for tau, and
\* for V a scalar or a list of one value (a mismatch for two ids).
MixedCollections ==
    {<<<<"tau", tau>>, <<"V", V>>>> :
        tau \in {Scalar(1), ListOf(<<1, 2>>)}, V \in {Scalar(2), ListOf(<<2>>)}}

\* set calls with two attributes on the ids of one model.
SetNext ==
    \/ CreateStep({"nml"}, {<<>>}, {NoPositions})
    \/ SetStep(MixedCollections, TRUE)

SpecSet == Init /\ [][SetNext]_vars

\* C34: a set call that raises leaves every store of every model as it was:
\* no store has been made and no store has been updated.
C34_FailedSetChangesNothing ==
    [][(ret'.op = "set" /\ used'.calls # used.calls /\ ret'.res # "ok")
         => /\ heap' = heap
            /\ \A m \in DOMAIN JitModels :
                  JitModels'[m].attributes = JitModels[m].attributes]_vars

\* ------------------------------------------- claims about creation requests
\* The dicts of new values passed to Create: none, a key of the model, a
\* name the model does not declare.
CreateParams == {<<>>, <<<<"tau", Scalar(1)>>>>, <<<<"w", Scalar(1)>>>>}

CopyAnyStep ==
    /\ \E old \in ModelNames, newDefault \in {<<>>} : DoCopyModel(old, "copy", newDefault)
    /\ UNCHANGED <<idxvars, posvars>>

\* Creation and copy requests for every kind of model, and the build threads.
CreateNext ==
    \/ CreateStep(ModelNames, CreateParams, {NoPositions})
    \/ CopyAnyStep
    \/ ThreadStep

SpecCreate == Init /\ [][CreateNext]_vars

\* C35: a creation request for a model given as source whose params name a
\* key the model does not declare raises KeyError, and a request that raises
\* KeyError has registered no model, handed out no id, started no thread and
\* changed no other registry, the list of external models included.
C35_UndeclaredKeyChangesNothing ==
    [][/\ \A modelName \in ModelNames, n \in 0..MaxN :
            CreatePath(World, modelName) = "handleNestml"
               => CreateHelperCreate(World, modelName, n, <<<<"w", Scalar(1)>>>>,
                                     NoPositions).err = "KeyError"
       /\ (CreateReturned /\ ret'.path = "handleNestml" /\ ret'.res = "KeyError")
            => /\ JitModels' = JitModels
               /\ nextFree' = nextFree
               /\ threads' = threads
               /\ proxies' = proxies
               /\ heap' = heap
               /\ indexer' = indexer
               /\ nest' = nest
               /\ externalModels' = externalModels]_vars

\* A copy request has just returned.
CopyReturned == ret'.op = "copyModel" /\ used'.calls # used.calls

\* C36: no model name ever has two build threads, and a creation or copy
\* request for a name that is registered as a JIT model takes the JIT path:
\* it starts no thread and does not touch the engine (no install, no create).
C36_OneWorkerPerModel ==
    [][/\ \A i, j \in 1..Len(threads') : threads'[i].model = threads'[j].model => i = j
       /\ ((CreateReturned \/ CopyReturned) /\ ret'.arg[1] \in DOMAIN JitModels)
            => /\ ret'.path = "handleJitModel"
               /\ threads' = threads
               /\ nest' = nest]_vars

\* A second creation request for a model built in the background has
\* returned on the JIT path while the model's one build thread exists.
C36_Witness ==
    /\ ret.op = "Create"
    /\ ret.path = "handleJitModel"
    /\ ret.res = "ok"
    /\ used.creates = 2
    /\ Len(threads) = 1
    /\ threads[1].model = ret.arg[1]

\* A copy request for a registered model has returned on the JIT path.
C36_WitnessCopy ==
    /\ ret.op = "copyModel"
    /\ ret.path = "handleJitModel"
    /\ Len(threads) = 1
    /\ threads[1].model = ret.arg[1]

\* C37: every build thread was in the list of threads when it was started,
\* and its model was registered and had a range of ids by then; the model
\* of a thread that has been started stays registered.
C37_WorkerStartsLast ==
    \A i \in 1..Len(threads) :
        threads[i].state # "new"
           => /\ threads[i].atStart.listed
              /\ threads[i].atStart.registered
              /\ threads[i].atStart.ranged
              /\ threads[i].model \in DOMAIN JitModels

\* A build thread is running for a model that is registered and has ids.
C37_Witness ==
    \E i \in 1..Len(threads) :
        /\ threads[i].state = "running"
        /\ threads[i].model \in DOMAIN JitModels
        /\ nextFree[threads[i].model] > 0
        /\ ret.op = "Create"
        /\ ret.path = "handleNestml"

\* ------------------------------------------------ claims about membership
\* JitNode.__contains__(obj) for an int obj
JitNodeContains(node, obj) == ~(obj < node.first /\ obj >= node.last)

\* A range and an id, from below the smallest first id to above the
\* largest last id.
MemberInit ==
    /\ \E first \in 0..MaxFirst, n \in 0..MaxLen : idxNode = JitNode("A", first, first + n)
    /\ idxKey \in {IntKey(id) : id \in -1..(MaxFirst + MaxLen + 1)}
    /\ idxStrict = FALSE
    /\ idxRes = NotCalled

\* id in node
TestMembership ==
    /\ idxRes = NotCalled
    /\ idxRes' = Outcome(IF JitNodeContains(idxNode, idxKey.v) THEN "True" ELSE "False")
    /\ UNCHANGED <<idxNode, idxKey, idxStrict>>

MemberNext == TestMembership /\ UNCHANGED <<sysvars, posvars>>

MembershipInit == SysInit /\ MemberInit /\ PosIdle

SpecMember == MembershipInit /\ [][MemberNext]_vars

\* C38: id in node is True exactly when first <= id < last.
C38_MembershipIsRange ==
    idxRes.res \in {"True", "False"}
       => (idxRes.res = "True" <=> (idxNode.first <= idxKey.v /\ idxKey.v < idxNode.last))

\* ------------------------------------------- claims about the pairing dispatch
\* handle, lines 202-209: the branch taken, from whether the neuron's name,
\* the synapse's name and the paired synapse's name are models of the engine.
HandleBranch(neuronIn, synapseIn, newSynapseIn) ==
    IF neuronIn /\ newSynapseIn THEN "handleBuiltinBuiltin"
    ELSE IF ~neuronIn /\ ~newSynapseIn THEN "handleNestmlNestml"
    ELSE IF ~neuronIn /\ synapseIn THEN "handleNestmlBuiltin"
    ELSE "handleBuiltinNestml"

\* The branch handle takes for the neuron and the synapse in world w ("":
\* the lookup of the synapse in line 190 raises).
HandlePath(w, neuronName, synapseName) ==
    IF synapseName \notin DOMAIN w.JitModels THEN ""
    ELSE LET rootSynapse == RootOf(w.JitModels[synapseName], synapseName)
             newSynapseName == WithName(rootSynapse, neuronName)
         IN  HandleBranch(neuronName \in w.nest.models, synapseName \in w.nest.models,
                          newSynapseName \in w.nest.models)

\* handle(postNeuron, synapseName) for a collection of the model neuronName.
\* handleNestmlBuiltin returns (None, None); handleBuiltinNestml raises.
Handle(w, neuronName, synapseName) ==
    LET path == HandlePath(w, neuronName, synapseName)
    IN  IF path = "" THEN [w EXCEPT !.err = "KeyError"]
        ELSE IF path = "handleBuiltinBuiltin"
        THEN HandleBuiltinBuiltin(w, neuronName, synapseName)
        ELSE IF path = "handleNestmlNestml" THEN HandleNestmlNestml(w, neuronName, synapseName)
        ELSE IF path = "handleNestmlBuiltin" THEN w
        ELSE [w EXCEPT !.err = "Exception"]

DoHandle(neuronName, synapseName) ==
    /\ used.calls < MaxCalls
    /\ LET w == Handle(World, neuronName, synapseName)
       IN  /\ Commit(w)
           /\ ret' = Ret("handle", w.err, HandlePath(World, neuronName, synapseName), 0, 0,
                         <<neuronName, synapseName>>)
    /\ used' = [used EXCEPT !.calls = @ + 1]

\* The engine's Install of a module that holds the model name.
DoInstall(name) ==
    /\ name \notin nest.models
    /\ Commit([World EXCEPT !.nest.models = @ \cup {name}])
    /\ ret' = Ret("Install", "ok", "", 0, 0, <<name>>)
    /\ UNCHANGED used

HandleStep ==
    /\ \E neuronName \in {"nml", "bi"}, synapseName \in {"syn"} :
          DoHandle(neuronName, synapseName)
    /\ UNCHANGED <<idxvars, posvars>>

InstallStep ==
    /\ \E name \in {"syn", WithName("syn", "nml")} : DoInstall(name)
    /\ UNCHANGED <<idxvars, posvars>>

\* Pairings through the dispatcher: a neuron built in the background or
\* built in, a registered synapse, and modules installed in the engine.
HandleNext ==
    \/ CreateStep({"nml"}, {<<>>}, {NoPositions})
    \/ RegisterStepWith({"syn"})
    \/ ThreadStep
    \/ InstallStep
    \/ HandleStep

SpecHandle == Init /\ [][HandleNext]_vars

\* C39: handle takes the branch that raises "builtin neuron with external
\* synapse" only for a neuron that is a model of the engine; for a neuron
\* that is not, it takes one of the other branches.
C39_RaisesOnlyForBuiltinNeuron ==
    [][(ret'.op = "handle" /\ used'.calls # used.calls /\ ret'.path # "")
         => /\ ret'.path = "handleBuiltinNestml" => ret'.arg[1] \in nest.models
            /\ ret'.arg[1] \notin nest.models
                 => ret'.path \in {"handleNestmlNestml", "handleNestmlBuiltin"}]_vars
====
